---- MODULE Spec2Model ----
(***************************************************************************)
(* Motion core of the portfolio front-end: the draggable grid camera in   *)
(* its two copies, and the wheel-driven picker,                            *)
(*   variant "lib"    createInfiniteGrid (lib/grid/infiniteGrid) and       *)
(*                    createPickerScroll (lib/scroll/pickerScroll), both   *)
(*                    hosted by the picker page,                           *)
(*   variant "inline" the camera written inline in routes/+page.svelte.    *)
(* One behaviour runs one variant; the variables of the other keep their   *)
(* initial values.                                                         *)
(*                                                                         *)
(* Arithmetic.  The code computes in IEEE doubles; the model computes in   *)
(* fixed point.  Positions are in 1/U pixel, velocities in 1/U pixel per   *)
(* second, times in milliseconds, factors (exp, alpha, friction) in 1/ONE. *)
(* Every product is truncated toward zero.  Pointer coordinates are whole  *)
(* pixels.  performance.now() is an input: the handlers only use the       *)
(* difference to the reading they stored before, so every handler draws    *)
(* that difference (in ms) instead of the model keeping a clock.           *)
(***************************************************************************)
EXTENDS Integers, Sequences, FiniteSets, TLC

(* ------------------------------ bounds --------------------------------- *)

\* input events (pointer, resize, screen switch) explored per behaviour
MaxInputs == 4

\* wheel events explored per behaviour
MaxWheel == 2

\* deltaY of a wheel event, in px
WheelDeltas == {16, -3}

\* elapsed milliseconds a wheel event may observe since the previous one
WheelGapMs == {100}

\* elapsed milliseconds a frame callback may observe since the previous one
DtMs == {0, 50, 80}

\* elapsed milliseconds a frame callback observes when the clock reading it
\* takes is earlier than the one it stored
BackMs == {-50}

\* elapsed milliseconds a pointer-move may observe since the previous sample
MoveGapMs == {250}

\* pointer positions (clientX, clientY) delivered by the browser, in px
Points == {<<100, 100>>, <<100, 103>>, <<150, 100>>}

\* positions at which the pointer is pressed
DownPoints == {<<100, 100>>}

\* viewport sizes (width, height) the window can take, in px
Viewports == {<<1280, 800>>, <<1512, 945>>}

\* viewport the page is mounted in
MountViewport == <<1280, 800>>

(* --------------------------- fixed point ------------------------------- *)

U == 100
ONE == 10000

Abs(a) == IF a < 0 THEN -a ELSE a

Sgn(a) == IF a < 0 THEN -1 ELSE IF a > 0 THEN 1 ELSE 0

\* a * num / den truncated toward zero, without forming a * num
MulFrac(a, num, den) ==
  Sgn(a) * Sgn(num) *
    ((Abs(a) \div den) * Abs(num) + ((Abs(a) % den) * Abs(num)) \div den)

RECURSIVE ExpTerms(_, _, _, _)
ExpTerms(x, n, term, acc) ==
  IF n > 12 \/ term = 0 THEN acc
  ELSE LET t == (term * x) \div (n * ONE)
       IN  ExpTerms(x, n + 1, t, IF n % 2 = 1 THEN acc - t ELSE acc + t)

\* largest exponent a tick forms: 18 /s over 50 ms, in 1/ONE
MaxExpArg == (18 * 50 * ONE) \div 1000

\* Math.exp(-x) for x in -MaxExpArg..MaxExpArg given in 1/ONE, result in 1/ONE
\* (alternating series, its reciprocal for x < 0; tabulated once)
ExpTable ==
  [x \in -MaxExpArg..MaxExpArg |->
     IF x >= 0 THEN ExpTerms(x, 1, ONE, ONE)
     ELSE (ONE * ONE) \div ExpTerms(-x, 1, ONE, ONE)]

ExpNeg(x) == ExpTable[x]

\* a blend factor larger than 1 (sensitivity of C11)
BlendOver(resp, dt) == ONE + ExpNeg(resp * dt * 10)

\* 1 - Math.exp(-resp * dt), resp per second, dt in ms, result in 1/ONE
Blend(resp, dt) == ONE - ExpNeg(resp * dt * 10)

\* Math.max(a, Math.min(b, n))
clamp(n, a, b) == IF n < a THEN a ELSE IF n > b THEN b ELSE n

RECURSIVE SqrtBetween(_, _, _)
\* largest r in lo..hi with r * r <= n, by bisection
SqrtBetween(n, lo, hi) ==
  IF lo >= hi THEN lo
  ELSE LET mid == (lo + hi + 1) \div 2
       IN  IF mid * mid <= n THEN SqrtBetween(n, mid, hi)
           ELSE SqrtBetween(n, lo, mid - 1)

\* Math.sqrt(x) for x in 0..ONE given in 1/ONE, result in 1/ONE
SqrtOne(x) == SqrtBetween(x * ONE, 0, ONE)

\* binary digits of an exponent: 0.1001111011 = 635/1024 = 0.6201
ExponentBits == <<1, 0, 0, 1, 1, 1, 1, 0, 1, 1>>

RECURSIVE PowBits(_, _, _)
\* acc times the product of the 2^-k-th roots the digits from k on select,
\* root being the 2^-(k-1)-th root of the base
PowBits(root, k, acc) ==
  IF k > Len(ExponentBits) THEN acc
  ELSE LET r == SqrtOne(root)
       IN  PowBits(r, k + 1, IF ExponentBits[k] = 1 THEN (acc * r) \div ONE ELSE acc)

\* Math.pow(x, 0.62) for x in 0..ONE given in 1/ONE, result in 1/ONE
PowTable == [x \in 0..ONE |-> IF x = 0 THEN 0 ELSE PowBits(x, 1, ONE)]

\* Math.hypot(a, b) < r, decided on the squares
HypotLt(a, b, r) == Abs(a) < r /\ Abs(b) < r /\ a * a + b * b < r * r

\* Math.min(0.05, elapsed / 1000), in ms
ClampDt(ms) == IF ms < 50 THEN ms ELSE 50

\* a time delta taken as it is, without a floor (sensitivity of C31)
ClampGapNone(ms) == ms

\* Math.max(0.001, elapsed / 1000), in ms
ClampGap(ms) == IF ms > 1 THEN ms ELSE 1

(* ------------------------------ state ---------------------------------- *)

VARIABLES
  variant,          \* which copy of the camera this behaviour runs
  inputs,           \* input events delivered so far
  event,            \* what the browser ran last: an input event or a frame
  ticks,            \* frames run since the wheel event of the impulse scenario
  screen,           \* "grid" | "scroll"
  innerWidth,       \* window.innerWidth
  innerHeight,      \* window.innerHeight
  rafQueue,         \* camera tick callbacks the browser holds for the next frame
  isPointerDown,
  isDragging,
  startX,
  startY,
  \* createInfiniteGrid
  container,
  isDraggingStore,
  currentOffsetX,
  currentOffsetY,
  offsetX,
  offsetY,
  targetOffsetX,
  targetOffsetY,
  velocityX,
  velocityY,
  lastClientX,
  lastClientY,
  lastRafTime,
  rafId,
  lastCenterCol,
  lastCenterRow,
  visibleTiles,
  visibleTilesId,   \* which array the visibleTiles store holds: set() puts a new one
  \* +page.svelte camera
  camX,
  camY,
  camTargetX,
  camTargetY,
  startCamX,
  startCamY,
  velX,
  velY,
  lastPX,
  lastPY,
  lastRafT,
  rafCam,
  vw,
  vh,
  gridYOffset,
  \* createPickerScroll and the wheel listener of the picker page
  wheelListener,    \* picker.onWheel is registered on window
  wheels,           \* wheel events delivered so far
  scrollTarget,
  scrollCurrent,
  scrollFrac,
  scrollBaseIndex,
  scrollStretch,
  scrollDir,
  wheelSpeed,
  lastWheelT,
  pickerLastT,
  pickerRafId,
  pickerQueue,      \* picker tick callbacks the browser holds for the next frame
  \* WebGL scroll view of +page.svelte
  canvasElement,    \* the scroll markup is mounted and bound
  scrollInited,
  scrollRunning,
  scrollRaf,        \* "null", or the callback the held frame id belongs to
  animateQueue,     \* animate callbacks the browser holds for the next frame
  loopQueue,        \* resume-loop callbacks the browser holds for the next frame
  timers,           \* pending setTimeout(.., 0) callbacks, oldest first
  systems,          \* scrollVelocity, infiniteScroll, meshManager, .. are set
  scrollReady,      \* infiniteScroll.isReady
  scrollAttached,   \* scrollEvents has its listeners on the container
  scrollY,
  targetScrollY,
  lastScrollY,
  velocity,
  listItems,        \* indices whose list element is bound
  meshes,           \* meshManager's meshes: the item each was made for (text),
                    \* the item whose position it last received (at) and
                    \* whether its uHover uniform is 1 (hover)
  hoveredVisited,   \* the list item under the mouse (its index), or null
  hoveredVisitedIndex

envVars == <<variant, inputs, event, ticks, screen, innerWidth, innerHeight,
            rafQueue>>

dragVars == <<isPointerDown, isDragging, startX, startY>>

gridVars == <<container, isDraggingStore, currentOffsetX, currentOffsetY,
              offsetX, offsetY, targetOffsetX, targetOffsetY,
              velocityX, velocityY, lastClientX, lastClientY,
              lastRafTime, rafId, lastCenterCol, lastCenterRow, visibleTiles,
                 visibleTilesId>>

camVars == <<camX, camY, camTargetX, camTargetY, startCamX, startCamY,
             velX, velY, lastPX, lastPY, lastRafT, rafCam, vw, vh, gridYOffset>>

pickerVars == <<wheelListener, wheels, scrollTarget, scrollCurrent, scrollFrac,
                scrollBaseIndex, scrollStretch, scrollDir, wheelSpeed,
                lastWheelT, pickerLastT, pickerRafId, pickerQueue>>

scrollVars == <<canvasElement, scrollInited, scrollRunning, scrollRaf,
                animateQueue, loopQueue, timers, systems, scrollReady,
                scrollAttached, scrollY, targetScrollY, lastScrollY, velocity,
                listItems, meshes>>

hoverVars == <<hoveredVisited, hoveredVisitedIndex>>

vars == <<envVars, dragVars, gridVars, camVars, pickerVars, scrollVars,
          hoverVars>>

(* ------------------- createInfiniteGrid (variant "lib") ---------------- *)

DRAG_THRESHOLD_PX == 4

\* feel constants of createInfiniteGrid; FRICTION_PER_SEC in tenths (3.2),
\* VEL_SMOOTH and INERTIA_BOOST in hundredths (0.18, 1.35)
Grid_DRAG_RESP == 12
Grid_INERTIA_RESP == 10
Grid_FRICTION_PER_SEC == 32
Grid_STOP_SPEED == 8
Grid_VEL_SMOOTH == 18
Grid_INERTIA_BOOST == 135

\* settle distance of the tick's stop check, 0.25 px in 1/U px
Grid_STOP_DIST == 25

\* options the picker page passes to createInfiniteGrid
cellSize == 200
gridSize == 7
TOTAL_IMAGES == 20

\* initial value of lastCenterCol / lastCenterRow: equal to no cell index;
\* also what a division by 0 yields (NaN or an infinity)
NaN == -1000000

\* a / b of two numbers: not a finite number when b is 0
Quot(a, b) == IF b = 0 THEN NaN ELSE a \div b

Grid_getCenterCell(cx, cy) ==
  [col |-> (-cx + (innerWidth * U) \div 2) \div (cellSize * U),
   row |-> (-cy + (innerHeight * U) \div 2) \div (cellSize * U)]

\* Math.ceil(gridSize / 2)
halfGrid == (gridSize + 1) \div 2

\* rows (and columns) the two loops of computeVisibleTiles walk
Grid_side == 2 * halfGrid + 1

\* the remainder operator of the language: truncated division, the sign of
\* the result follows the dividend
JsRem(a, b) == Sgn(a) * (Abs(a) % Abs(b))

\* faulty wrap: the plain remainder, negative for a negative row or column
\* (sensitivity of C21)
Grid_wrapRaw(n) == JsRem(n, TOTAL_IMAGES)

\* ((n % total) + total) % total, the wrapped index of row or column n
Grid_wrap(n) == JsRem(JsRem(n, TOTAL_IMAGES) + TOTAL_IMAGES, TOTAL_IMAGES)

\* index into images of the tile at (col, row)
Grid_finalIndex(col, row) ==
  JsRem(Grid_wrap(row) + Grid_wrap(col), TOTAL_IMAGES)

\* faulty loops, columns outer (sensitivity of C22)
Grid_tileColumnMajor(c, i) ==
  [x |-> (c.col - halfGrid + ((i - 1) \div Grid_side)) * cellSize,
   y |-> (c.row - halfGrid + ((i - 1) % Grid_side)) * cellSize,
   image |-> Grid_finalIndex(c.col - halfGrid + ((i - 1) \div Grid_side),
                             c.row - halfGrid + ((i - 1) % Grid_side))]

\* the i-th tile pushed by the loops around centre cell c (rows outer)
Grid_tile(c, i) ==
  [x |-> (c.col - halfGrid + ((i - 1) % Grid_side)) * cellSize,
   y |-> (c.row - halfGrid + ((i - 1) \div Grid_side)) * cellSize,
   image |-> Grid_finalIndex(c.col - halfGrid + ((i - 1) % Grid_side),
                             c.row - halfGrid + ((i - 1) \div Grid_side))]

\* computeVisibleTiles(cx, cy), given c = getCenterCell(cx, cy)
Grid_computeVisibleTiles(c) ==
  [i \in 1..(Grid_side * Grid_side) |-> Grid_tile(c, i)]

\* ensureTiles(cx, cy), given c = getCenterCell(cx, cy): the
\* a gate that is always open (sensitivity of C23)
Grid_centerAlways(c) == TRUE

\* the gate of ensureTiles: the centre cell is not the recorded one
Grid_centerChanged(c) == c.col # lastCenterCol \/ c.row # lastCenterRow

\* (lastCenterCol, lastCenterRow, visibleTiles, visibleTilesId) it leaves
Grid_ensureTiles(c) ==
  IF Grid_centerChanged(c)
  THEN <<c.col, c.row, Grid_computeVisibleTiles(c), 1 - visibleTilesId>>
  ELSE <<lastCenterCol, lastCenterRow, visibleTiles, visibleTilesId>>

\* startLoop's early return: a frame is requested only when none is held
Grid_startLoopRequests(id) == id = "null"

\* startLoop: the (rafId, rafQueue) it leaves
Grid_startLoop(id, q) ==
  IF Grid_startLoopRequests(id) THEN <<"frame", q + 1>> ELSE <<id, q>>

\* a tick whose inertia also runs during a drag (sensitivity of C14)
Grid_inertiaAlways(dragging) == TRUE

\* the tick's inertia block runs under if (!isDragging)
Grid_inertia(dragging) == ~dragging

\* a tick that never snaps the velocity (sensitivity of C13)
Grid_snapsNever(vx, vy) == FALSE

\* the tick's snap test: Math.hypot(velocityX, velocityY) < STOP_SPEED
Grid_snaps(vx, vy) == HypotLt(vx, vy, Grid_STOP_SPEED * U)

\* faulty stop condition: waits for target = current exactly (sensitivity of C1)
Grid_tickStopsExact(dragging, vx, vy, dx, dy) ==
  ~dragging /\ vx = 0 /\ vy = 0 /\ dx = 0 /\ dy = 0

\* faulty tick: ensureTiles is given the offset the tick started from
\* (sensitivity of C24)
Grid_ensuredStale(old, new) == old

\* the offset the tick passes to ensureTiles: the integrated one
Grid_ensured(old, new) == new

\* the tick's stop condition
Grid_tickStops(dragging, vx, vy, dx, dy) ==
  ~dragging /\ vx = 0 /\ vy = 0 /\ HypotLt(dx, dy, Grid_STOP_DIST)

\* the tick of startLoop on the grid's variables, ms = now - lastRafTime;
\* its locals are bound one after another, in the order the statements run
Grid_tick(ms) ==
  /\ \E dt \in {IF lastRafTime = 0 THEN 0 ELSE ClampDt(ms)} :
     \E resp \in {IF isDragging THEN Grid_DRAG_RESP ELSE Grid_INERTIA_RESP} :
     \E alpha \in {Blend(resp, dt)} :
     \E cx \in {currentOffsetX + MulFrac(targetOffsetX - currentOffsetX, alpha, ONE)} :
     \E cy \in {currentOffsetY + MulFrac(targetOffsetY - currentOffsetY, alpha, ONE)} :
     \E friction \in {ExpNeg(Grid_FRICTION_PER_SEC * dt)} :
     \E inertia \in {Grid_inertia(isDragging)} :
     \E vx1 \in {IF inertia THEN MulFrac(velocityX, friction, ONE) ELSE velocityX} :
     \E vy1 \in {IF inertia THEN MulFrac(velocityY, friction, ONE) ELSE velocityY} :
     \E tx \in {IF inertia THEN targetOffsetX + MulFrac(vx1, dt, 1000)
                ELSE targetOffsetX} :
     \E ty \in {IF inertia THEN targetOffsetY + MulFrac(vy1, dt, 1000)
                ELSE targetOffsetY} :
     \E snap \in {inertia /\ Grid_snaps(vx1, vy1)} :
     \E vx2 \in {IF snap THEN 0 ELSE vx1} :
     \E vy2 \in {IF snap THEN 0 ELSE vy1} :
     \E c \in {Grid_getCenterCell(Grid_ensured(currentOffsetX, cx),
                                  Grid_ensured(currentOffsetY, cy))} :
     \E stop \in {Grid_tickStops(isDragging, vx2, vy2, tx - cx, ty - cy)} :
         /\ currentOffsetX' = cx
         /\ currentOffsetY' = cy
         /\ velocityX' = vx2
         /\ velocityY' = vy2
         /\ targetOffsetX' = tx
         /\ targetOffsetY' = ty
         /\ rafId' = IF stop THEN "null" ELSE "frame"
         /\ lastRafTime' = IF stop THEN 0 ELSE 1
         /\ rafQueue' = IF stop THEN rafQueue - 1 ELSE rafQueue
         /\ lastCenterCol' = Grid_ensureTiles(c)[1]
         /\ lastCenterRow' = Grid_ensureTiles(c)[2]
         /\ visibleTiles' = Grid_ensureTiles(c)[3]
         /\ visibleTilesId' = Grid_ensureTiles(c)[4]
  /\ UNCHANGED <<container, isDraggingStore, offsetX, offsetY,
                 lastClientX, lastClientY>>

Grid_onPointerDown(p) ==
  /\ variant = "lib"
  /\ screen = "grid"
  /\ inputs < MaxInputs
  /\ inputs' = inputs + 1
  /\ event' = "down"
  /\ IF ~container
     THEN UNCHANGED <<rafQueue, dragVars, gridVars>>
     ELSE LET loop == Grid_startLoop(rafId, rafQueue)
          IN  /\ isPointerDown' = TRUE
              /\ isDragging' = FALSE
              /\ isDraggingStore' = FALSE
              /\ startX' = p[1]
              /\ startY' = p[2]
              /\ offsetX' = currentOffsetX
              /\ offsetY' = currentOffsetY
              /\ velocityX' = 0
              /\ velocityY' = 0
              /\ lastClientX' = p[1]
              /\ lastClientY' = p[2]
              /\ targetOffsetX' = currentOffsetX
              /\ targetOffsetY' = currentOffsetY
              /\ rafId' = loop[1]
              /\ rafQueue' = loop[2]
              /\ UNCHANGED <<container, currentOffsetX, currentOffsetY, lastRafTime,
                             lastCenterCol, lastCenterRow, visibleTiles,
                 visibleTilesId>>
  /\ UNCHANGED <<ticks, hoverVars, variant, screen, innerWidth, innerHeight>>
  /\ UNCHANGED <<camVars, pickerVars>>
  /\ UNCHANGED scrollVars

\* faulty threshold test: any move arms the drag (sensitivity of C4)
Grid_reachesAlways(dx0, dy0) == TRUE

\* the threshold test of a move received before the drag is armed
Grid_reachesThreshold(dx0, dy0) == ~HypotLt(dx0, dy0, DRAG_THRESHOLD_PX)

\* target of a drag move on one axis: baseline plus pointer travel
Grid_dragTarget(origin, delta) == origin + delta * U

\* low-pass filter of the pointer velocity, dxPx px travelled in gap ms
Grid_smoothVelocity(v, dxPx, gap) ==
  LET inst == Quot(dxPx * U * 1000, ClampGap(gap))
  IN  IF inst = NaN \/ v = NaN THEN NaN
      ELSE v + MulFrac(inst - v, Grid_VEL_SMOOTH, 100)

\* gap = now - lastMoveTime of a move received while dragging
Grid_onPointerMove(p, gap) ==
  /\ variant = "lib"
  /\ inputs < MaxInputs
  /\ inputs' = inputs + 1
  /\ event' = "move"
  /\ IF ~isPointerDown
       \/ (~isDragging /\ ~Grid_reachesThreshold(p[1] - startX, p[2] - startY))
     THEN UNCHANGED <<rafQueue, dragVars, gridVars>>
     ELSE LET arming == ~isDragging
              baseX == IF arming THEN currentOffsetX ELSE offsetX
              baseY == IF arming THEN currentOffsetY ELSE offsetY
              prevX == IF arming THEN p[1] ELSE lastClientX
              prevY == IF arming THEN p[2] ELSE lastClientY
              elapsed == IF arming THEN 0 ELSE gap
              loop == Grid_startLoop(rafId, rafQueue)
          IN  /\ isDragging' = TRUE
              /\ isDraggingStore' = TRUE
              /\ offsetX' = baseX
              /\ offsetY' = baseY
              /\ targetOffsetX' = Grid_dragTarget(baseX, p[1] - startX)
              /\ targetOffsetY' = Grid_dragTarget(baseY, p[2] - startY)
              /\ velocityX' = Grid_smoothVelocity(velocityX, p[1] - prevX, elapsed)
              /\ velocityY' = Grid_smoothVelocity(velocityY, p[2] - prevY, elapsed)
              /\ lastClientX' = p[1]
              /\ lastClientY' = p[2]
              /\ rafId' = loop[1]
              /\ rafQueue' = loop[2]
              /\ UNCHANGED <<isPointerDown, startX, startY, container,
                             currentOffsetX, currentOffsetY, lastRafTime,
                             lastCenterCol, lastCenterRow, visibleTiles,
                 visibleTilesId>>
  /\ UNCHANGED <<ticks, hoverVars, variant, screen, innerWidth, innerHeight>>
  /\ UNCHANGED <<camVars, pickerVars>>
  /\ UNCHANGED scrollVars

\* velocity handed to the inertia on release
Grid_boost(v) == MulFrac(v, Grid_INERTIA_BOOST, 100)

\* also the pointercancel handler
Grid_onPointerUp ==
  /\ variant = "lib"
  /\ inputs < MaxInputs
  /\ inputs' = inputs + 1
  /\ event' = "up"
  /\ IF ~isPointerDown
     THEN UNCHANGED <<rafQueue, dragVars, gridVars>>
     ELSE IF ~isDragging
     THEN /\ isPointerDown' = FALSE
          /\ isDraggingStore' = FALSE
          /\ UNCHANGED <<rafQueue, isDragging, startX, startY, container,
                         currentOffsetX, currentOffsetY, offsetX, offsetY,
                         targetOffsetX, targetOffsetY, velocityX, velocityY,
                         lastClientX, lastClientY, lastRafTime, rafId,
                         lastCenterCol, lastCenterRow, visibleTiles,
                 visibleTilesId>>
     ELSE LET loop == Grid_startLoop(rafId, rafQueue)
          IN  /\ isPointerDown' = FALSE
              /\ isDragging' = FALSE
              /\ isDraggingStore' = FALSE
              /\ velocityX' = Grid_boost(velocityX)
              /\ velocityY' = Grid_boost(velocityY)
              /\ rafId' = loop[1]
              /\ rafQueue' = loop[2]
              /\ UNCHANGED <<startX, startY, container,
                             currentOffsetX, currentOffsetY, offsetX, offsetY,
                             targetOffsetX, targetOffsetY,
                             lastClientX, lastClientY, lastRafTime,
                             lastCenterCol, lastCenterRow, visibleTiles,
                 visibleTilesId>>
  /\ UNCHANGED <<ticks, hoverVars, variant, screen, innerWidth, innerHeight>>
  /\ UNCHANGED <<camVars, pickerVars>>
  /\ UNCHANGED scrollVars

(* ------------------ createPickerScroll (variant "lib") ----------------- *)

\* options the picker page passes to createPickerScroll
itemHeight == 112

\* tuning of createPickerScroll, rates per second, WHEEL_MAX_VEL in px/s
SCROLL_POS_RESP == 14
WHEEL_MAX_VEL == 8000
WHEEL_VEL_DECAY == 14
STRETCH_RESP_MIN == 3
STRETCH_RESP_MAX == 18

\* wheel speed below which the tick snaps it to 0: 5 px/s
Picker_SNAP_SPEED == 5

\* share of the instantaneous speed a wheel event blends in: 0.55, in hundredths
Picker_WHEEL_BLEND == 55

\* the tick stops below 0.6 px (in 1/U px) and below 0.01 stretch (in 1/ONE)
Picker_STOP_DIST == 60
Picker_STOP_STRETCH == 100

\* clamp(ws / WHEEL_MAX_VEL, 0, 1), in 1/ONE
Picker_speedNorm(ws) == clamp(ws \div ((WHEEL_MAX_VEL * U) \div ONE), 0, ONE)

\* clamp(Math.pow(speedNorm, 0.62), 0, 1), in 1/ONE
Picker_desired(speedNorm) == clamp(PowTable[speedNorm], 0, ONE)

\* resp * dt of the stretch filter, in 1/ONE
Picker_stretchExp(speedNorm, dt) ==
  ((STRETCH_RESP_MIN * ONE + (STRETCH_RESP_MAX - STRETCH_RESP_MIN) * speedNorm) * dt)
    \div 1000

\* shape of the stretch profile, in hundredths: STRETCH_MAX_Y 1.2,
\* STRETCH_SIGMA 0.85, EDGE_SHRINK_MAX_Y 0.35, MIN_SCALE_Y 0.55
STRETCH_MAX_Y == 120
STRETCH_SIGMA == 85
EDGE_SHRINK_MAX_Y == 35
MIN_SCALE_Y == 55

\* labelOpacity's floor 0.55 and span 0.45, in hundredths
OPACITY_MIN == 55
OPACITY_SPAN == 45

RECURSIVE ExpWide(_)
\* Math.exp(-y) for any y >= 0 given in 1/ONE, result in 1/ONE: the table
\* over MaxExpArg, one factor exp(-MaxExpArg) for each further MaxExpArg
ExpWide(y) ==
  IF y <= MaxExpArg THEN ExpNeg(y)
  ELSE IF y > 12 * ONE THEN 0
  ELSE MulFrac(ExpWide(y - MaxExpArg), ExpNeg(MaxExpArg), ONE)

\* sigma of slotWeight: Math.max(0.35, STRETCH_SIGMA), in 1/100
Picker_sigma == IF STRETCH_SIGMA < 35 THEN 35 ELSE STRETCH_SIGMA

\* x * x / 2 of slotWeight, x = dSlots / sigma, frac in 1/U px, result in 1/ONE
Picker_halfSquare(slot, frac) ==
  LET dSlots == slot * ONE - (frac * ONE) \div (itemHeight * U)
      sigma == Picker_sigma
      x == (dSlots * 100) \div sigma
  IN  MulFrac(x, x, ONE) \div 2

\* faulty weight: 1.8 times the bell instead of its power 1.8
\* (sensitivity of C25)
Picker_slotWeightScaled(slot, frac) ==
  MulFrac(ExpWide(Picker_halfSquare(slot, frac)), 18, 10)

\* slotWeight: Math.pow(Math.exp(-(x * x) / 2), 1.8), formed as
\* exp(-1.8 * (x * x) / 2), in 1/ONE
Picker_slotWeight(slot, frac) ==
  ExpWide(MulFrac(Picker_halfSquare(slot, frac), 18, 10))

\* labelScaleY, stretch in 1/ONE, result in 1/ONE
Picker_labelScaleY(slot, frac, stretch) ==
  LET w == Picker_slotWeight(slot, frac)
      raw == ONE + MulFrac(MulFrac(stretch, w, ONE), STRETCH_MAX_Y, 100)
                 - MulFrac(MulFrac(stretch, ONE - w, ONE), EDGE_SHRINK_MAX_Y, 100)
      floor == (MIN_SCALE_Y * ONE) \div 100
  IN  IF raw > floor THEN raw ELSE floor

\* labelOpacity, result in 1/ONE
Picker_labelOpacity(slot, frac) ==
  (OPACITY_MIN * ONE) \div 100
    + MulFrac(Picker_slotWeight(slot, frac), OPACITY_SPAN, 100)

\* picker.items.length
itemsLength == 10

radius == 8

\* the rendered slots, -radius .. radius
slots == (-radius)..radius

\* faulty label index: the plain remainder, without the second wrap
\* (sensitivity of C19)
Picker_labelIndexRaw(base, slot) == JsRem(base + slot, itemsLength)

\* index into items of the label rendered in a slot
Picker_labelIndex(base, slot) ==
  JsRem(JsRem(base + slot, itemsLength) + itemsLength, itemsLength)

\* mod of the page script
mod(n, m) == JsRem(JsRem(n, m) + m, m)

\* faulty start: requests a frame whether or not one is held (sensitivity of C3)
Picker_startAlways(id) == TRUE

\* start's early return: a frame is requested only when none is held
Picker_startRequests(id) == id = "null"

\* start: the (rafId, queue) it leaves
Picker_start(id, q) ==
  IF Picker_startRequests(id) THEN <<"frame", q + 1>> ELSE <<id, q>>

\* faulty base: the quotient truncated toward zero (sensitivity of C20)
Picker_baseTrunc(current) ==
  Sgn(current) * (Abs(current) \div (itemHeight * U))

\* Math.floor(current / itemHeight)
Picker_base(current) == current \div (itemHeight * U)

\* faulty integration: the wheel speed pushes the position (sensitivity of C29)
Picker_positionPushed(target, current, ws, stretch, dir, dt) ==
  current + MulFrac(target - current, Blend(SCROLL_POS_RESP, dt), ONE)
          + dir * MulFrac(ws, dt, 1000)

\* the position a tick leaves, given the stores it starts from: the damped
\* follower reads target and current only
Picker_position(target, current, ws, stretch, dir, dt) ==
  current + MulFrac(target - current, Blend(SCROLL_POS_RESP, dt), ONE)

\* faulty stop condition: waits for target = current and stretch = 0 exactly
\* (sensitivity of C27)
Picker_tickStopsExact(dist, stretch, ws) ==
  dist = 0 /\ stretch = 0 /\ ws = 0

\* the tick's stop condition
Picker_tickStops(dist, stretch, ws) ==
  dist < Picker_STOP_DIST /\ stretch < Picker_STOP_STRETCH /\ ws = 0

\* the tick of start on the picker's variables, ms = t - lastT; its locals
\* are bound one after another, in the order the statements run
Picker_tick(ms) ==
  /\ \E dt \in {IF pickerLastT = 0 THEN 0 ELSE ClampDt(ms)} :
     \E current \in {Picker_position(scrollTarget, scrollCurrent, wheelSpeed,
                                     scrollStretch, scrollDir, dt)} :
     \E base \in {Picker_base(current)} :
     \E decayed \in {MulFrac(wheelSpeed, ExpNeg(WHEEL_VEL_DECAY * dt * 10), ONE)} :
     \E ws \in {IF decayed < Picker_SNAP_SPEED * U THEN 0 ELSE decayed} :
     \E speedNorm \in {Picker_speedNorm(ws)} :
     \E desired \in {Picker_desired(speedNorm)} :
     \E aStretch \in {ONE - ExpNeg(Picker_stretchExp(speedNorm, dt))} :
     \E stretch \in {scrollStretch + MulFrac(desired - scrollStretch, aStretch, ONE)} :
     \E stop \in {Picker_tickStops(Abs(scrollTarget - current), stretch, ws)} :
         /\ scrollCurrent' = current
         /\ scrollBaseIndex' = base
         /\ scrollFrac' = current - base * itemHeight * U
         /\ wheelSpeed' = ws
         /\ scrollStretch' = stretch
         /\ pickerRafId' = IF stop THEN "null" ELSE "frame"
         /\ pickerLastT' = IF stop THEN 0 ELSE 1
         /\ pickerQueue' = IF stop THEN pickerQueue - 1 ELSE pickerQueue
  /\ UNCHANGED <<wheelListener, wheels, scrollTarget, scrollDir, lastWheelT>>

\* faulty direction: the sign of deltaY, 0 included (sensitivity of C39)
Picker_dirSign(dir, dy) == Sgn(dy)

\* direction lock of onWheel: if (dy !== 0) scrollDir.set(dy > 0 ? 1 : -1)
Picker_dir(dir, dy) == IF dy # 0 THEN (IF dy > 0 THEN 1 ELSE -1) ELSE dir

\* the wheel listener; gap = now - lastWheelT
Picker_onWheel(dy, gap) ==
  /\ variant = "lib"
  /\ wheelListener
  /\ inputs < MaxInputs
  /\ wheels < MaxWheel
  /\ inputs' = inputs + 1
  /\ event' = "wheel"
  /\ wheels' = wheels + 1
  /\ scrollTarget' = scrollTarget + dy * U
  /\ scrollDir' = Picker_dir(scrollDir, dy)
  /\ lastWheelT' = 1
  /\ LET dt == ClampGap(IF lastWheelT = 0 THEN 0 ELSE gap)
         inst == Quot(Abs(dy) * U * 1000, dt)
         loop == Picker_start(pickerRafId, pickerQueue)
     IN  /\ wheelSpeed' = IF inst = NaN \/ wheelSpeed = NaN THEN NaN
                          ELSE wheelSpeed + MulFrac(inst - wheelSpeed, Picker_WHEEL_BLEND, 100)
         /\ pickerRafId' = loop[1]
         /\ pickerQueue' = loop[2]
  /\ UNCHANGED <<wheelListener, scrollCurrent, scrollFrac, scrollBaseIndex,
                 scrollStretch, pickerLastT>>
  /\ UNCHANGED <<ticks, hoverVars, variant, screen, innerWidth, innerHeight, rafQueue>>
  /\ UNCHANGED <<dragVars, gridVars, camVars>>
  /\ UNCHANGED scrollVars

(* --------------------- the picker page (variant "lib") ----------------- *)

\* setScreen of the picker page: entering the scroll screen registers the
\* wheel listener and starts the picker, leaving it removes the listener
Picker_setScreen(next) ==
  /\ variant = "lib"
  /\ inputs < MaxInputs
  /\ inputs' = inputs + 1
  /\ event' = "screen"
  /\ screen' = next
  /\ LET loop == IF next = "scroll" THEN Picker_start(pickerRafId, pickerQueue)
                 ELSE <<pickerRafId, pickerQueue>>
     IN  /\ wheelListener' = (next = "scroll")
         /\ pickerRafId' = loop[1]
         /\ pickerQueue' = loop[2]
  /\ UNCHANGED <<wheels, scrollTarget, scrollCurrent, scrollFrac, scrollBaseIndex,
                 scrollStretch, scrollDir, wheelSpeed, lastWheelT, pickerLastT>>
  /\ UNCHANGED <<ticks, hoverVars, variant, innerWidth, innerHeight, rafQueue>>
  /\ UNCHANGED <<dragVars, gridVars, camVars>>
  /\ UNCHANGED scrollVars

\* the window is resized; the picker page installs no resize handler
Picker_resize(size) ==
  /\ variant = "lib"
  /\ inputs < MaxInputs
  /\ inputs' = inputs + 1
  /\ event' = "resize"
  /\ innerWidth' = size[1]
  /\ innerHeight' = size[2]
  /\ UNCHANGED <<ticks, hoverVars, variant, screen, rafQueue>>
  /\ UNCHANGED <<dragVars, gridVars, camVars, pickerVars>>
  /\ UNCHANGED scrollVars

(* ----------------- routes/+page.svelte (variant "inline") -------------- *)

\* feel constants of the page; FRICTION_PER_SEC in tenths (3.0),
\* VEL_SMOOTH and INERTIA_BOOST in hundredths (0.18, 1.25)
Cam_DRAG_RESP == 14
Cam_INERTIA_RESP == 10
Cam_FRICTION_PER_SEC == 30
Cam_STOP_SPEED == 10
Cam_VEL_SMOOTH == 18
Cam_INERTIA_BOOST == 125

\* settle distance of the tick's stop check, 0.2 px in 1/U px
Cam_STOP_DIST == 20

\* the device presets of computeGridYOffset: <<width, y>>
Cam_targets == <<(<<1280, -16>>), (<<1512, -39>>), (<<1728, -52>>)>>

RECURSIVE Cam_closest(_, _, _)
\* the loop of computeGridYOffset from preset i on, best so far = preset b
Cam_closest(w, i, b) ==
  IF i > Len(Cam_targets) THEN b
  ELSE IF b = 0 \/ Abs(w - Cam_targets[i][1]) < Abs(w - Cam_targets[b][1])
       THEN Cam_closest(w, i + 1, i)
       ELSE Cam_closest(w, i + 1, b)

computeGridYOffset(w) == Cam_targets[Cam_closest(w, 1, 0)][2]

\* faulty guard: the early return is inverted (sensitivity of C6)
Cam_startLoopInverted(id) == id # "null"

\* startCamLoop's early return: a frame is requested only when none is held
Cam_startLoopRequests(id) == id = "null"

\* startCamLoop: the (rafCam, rafQueue) it leaves
startCamLoop(id, q) ==
  IF Cam_startLoopRequests(id) THEN <<"frame", q + 1>> ELSE <<id, q>>

\* a tick whose inertia also runs during a drag (sensitivity of C15)
Cam_inertiaAlways(dragging) == TRUE

\* the tick's inertia block runs under if (!isDragging)
Cam_inertia(dragging) == ~dragging

\* the tick's snap test: Math.hypot(velX, velY) < STOP_SPEED
Cam_snaps(vx, vy) == HypotLt(vx, vy, Cam_STOP_SPEED * U)

\* faulty stop condition: the speed is not tested (sensitivity of C2)
Cam_tickStopsAnySpeed(dragging, vx, vy, dx, dy) ==
  ~dragging /\ HypotLt(dx, dy, Cam_STOP_DIST)

\* the tick's stop condition
Cam_tickStops(dragging, vx, vy, dx, dy) ==
  ~dragging /\ vx = 0 /\ vy = 0 /\ HypotLt(dx, dy, Cam_STOP_DIST)

\* the tick of startCamLoop on the camera's variables, ms = now - lastRafT;
\* its locals are bound one after another, in the order the statements run
Cam_tick(ms) ==
  /\ \E dt \in {IF lastRafT = 0 THEN 0 ELSE ClampDt(ms)} :
     \E resp \in {IF isDragging THEN Cam_DRAG_RESP ELSE Cam_INERTIA_RESP} :
     \E a \in {Blend(resp, dt)} :
     \E cx \in {camX + MulFrac(camTargetX - camX, a, ONE)} :
     \E cy \in {camY + MulFrac(camTargetY - camY, a, ONE)} :
     \E fr \in {ExpNeg(Cam_FRICTION_PER_SEC * dt)} :
     \E inertia \in {Cam_inertia(isDragging)} :
     \E vx1 \in {IF inertia THEN MulFrac(velX, fr, ONE) ELSE velX} :
     \E vy1 \in {IF inertia THEN MulFrac(velY, fr, ONE) ELSE velY} :
     \E tx \in {IF inertia THEN camTargetX + MulFrac(vx1, dt, 1000) ELSE camTargetX} :
     \E ty \in {IF inertia THEN camTargetY + MulFrac(vy1, dt, 1000) ELSE camTargetY} :
     \E snap \in {inertia /\ Cam_snaps(vx1, vy1)} :
     \E vx2 \in {IF snap THEN 0 ELSE vx1} :
     \E vy2 \in {IF snap THEN 0 ELSE vy1} :
     \E stop \in {Cam_tickStops(isDragging, vx2, vy2, tx - cx, ty - cy)} :
         /\ camX' = cx
         /\ camY' = cy
         /\ velX' = vx2
         /\ velY' = vy2
         /\ camTargetX' = tx
         /\ camTargetY' = ty
         /\ rafCam' = IF stop THEN "null" ELSE "frame"
         /\ lastRafT' = IF stop THEN 0 ELSE 1
         /\ rafQueue' = IF stop THEN rafQueue - 1 ELSE rafQueue
  /\ UNCHANGED <<startCamX, startCamY, lastPX, lastPY, vw, vh, gridYOffset>>

\* the handler sits on the grid viewport, which exists on the grid screen only
onGridPointerDown(p) ==
  /\ variant = "inline"
  /\ screen = "grid"
  /\ inputs < MaxInputs
  /\ inputs' = inputs + 1
  /\ event' = "down"
  /\ LET loop == startCamLoop(rafCam, rafQueue)
     IN  /\ isPointerDown' = TRUE
         /\ isDragging' = FALSE
         /\ startX' = p[1]
         /\ startY' = p[2]
         /\ startCamX' = camX
         /\ startCamY' = camY
         /\ camTargetX' = camX
         /\ camTargetY' = camY
         /\ velX' = 0
         /\ velY' = 0
         /\ lastPX' = p[1]
         /\ lastPY' = p[2]
         /\ rafCam' = loop[1]
         /\ rafQueue' = loop[2]
  /\ UNCHANGED <<ticks, hoverVars, variant, screen, innerWidth, innerHeight>>
  /\ UNCHANGED <<camX, camY, lastRafT, vw, vh, gridYOffset>>
  /\ UNCHANGED <<gridVars, pickerVars>>
  /\ UNCHANGED scrollVars

\* the threshold test of a move received before the drag is armed
Cam_reachesThreshold(dx0, dy0) == ~HypotLt(dx0, dy0, DRAG_THRESHOLD_PX)

\* target of a drag move on one axis: baseline plus pointer travel
Cam_dragTarget(origin, delta) == origin + delta * U

\* low-pass filter of the pointer velocity, dxPx px travelled in gap ms
Cam_smoothVelocity(v, dxPx, gap) ==
  LET inst == Quot(dxPx * U * 1000, ClampGap(gap))
  IN  IF inst = NaN \/ v = NaN THEN NaN
      ELSE v + MulFrac(inst - v, Cam_VEL_SMOOTH, 100)

\* faulty early returns: the pointer is not tested (sensitivity of C36)
Cam_moveIgnoredAnyPointer(scr, down) == scr # "grid"

\* the early returns that open onGridPointerMove
Cam_moveIgnored(scr, down) == scr # "grid" \/ ~down

\* gap = now - lastMoveT
onGridPointerMove(p, gap) ==
  /\ variant = "inline"
  /\ inputs < MaxInputs
  /\ inputs' = inputs + 1
  /\ event' = "move"
  /\ IF Cam_moveIgnored(screen, isPointerDown)
       \/ (~isDragging /\ ~Cam_reachesThreshold(p[1] - startX, p[2] - startY))
     THEN UNCHANGED <<rafQueue, dragVars, camVars>>
     ELSE LET loop == startCamLoop(rafCam, rafQueue)
          IN  /\ isDragging' = TRUE
              /\ camTargetX' = Cam_dragTarget(startCamX, p[1] - startX)
              /\ camTargetY' = Cam_dragTarget(startCamY, p[2] - startY)
              /\ velX' = Cam_smoothVelocity(velX, p[1] - lastPX, gap)
              /\ velY' = Cam_smoothVelocity(velY, p[2] - lastPY, gap)
              /\ lastPX' = p[1]
              /\ lastPY' = p[2]
              /\ rafCam' = loop[1]
              /\ rafQueue' = loop[2]
              /\ UNCHANGED <<isPointerDown, startX, startY, camX, camY,
                             startCamX, startCamY, lastRafT, vw, vh, gridYOffset>>
  /\ UNCHANGED <<ticks, hoverVars, variant, screen, innerWidth, innerHeight>>
  /\ UNCHANGED <<gridVars, pickerVars>>
  /\ UNCHANGED scrollVars

\* velocity handed to the inertia on release
Cam_boost(v) == MulFrac(v, Cam_INERTIA_BOOST, 100)

\* the screen test that opens onGridPointerUp
Cam_upHandled(scr) == scr = "grid"

\* also the pointercancel handler
onGridPointerUp ==
  /\ variant = "inline"
  /\ inputs < MaxInputs
  /\ inputs' = inputs + 1
  /\ event' = "up"
  /\ IF ~Cam_upHandled(screen) \/ ~isPointerDown
     THEN UNCHANGED <<rafQueue, dragVars, camVars>>
     ELSE IF ~isDragging
     THEN /\ isPointerDown' = FALSE
          /\ UNCHANGED <<rafQueue, isDragging, startX, startY, camVars>>
     ELSE LET loop == startCamLoop(rafCam, rafQueue)
          IN  /\ isPointerDown' = FALSE
              /\ isDragging' = FALSE
              /\ velX' = Cam_boost(velX)
              /\ velY' = Cam_boost(velY)
              /\ rafCam' = loop[1]
              /\ rafQueue' = loop[2]
              /\ UNCHANGED <<startX, startY, camX, camY, camTargetX, camTargetY,
                             startCamX, startCamY, lastPX, lastPY, lastRafT,
                             vw, vh, gridYOffset>>
  /\ UNCHANGED <<ticks, hoverVars, variant, screen, innerWidth, innerHeight>>
  /\ UNCHANGED <<gridVars, pickerVars>>
  /\ UNCHANGED scrollVars

(* ------------- WebGL scroll view of routes/+page.svelte ---------------- *)

\* scrollConfig.scrollSensitivity, in tenths (0.5)
scrollSensitivity == 5

\* createScrollVelocity.update: the share of the remaining distance, and of the
\* velocity error, taken per frame (0.1), and the velocity decay (0.85), in
\* hundredths
SV_LERP == 10
SV_DECAY == 85

\* indices of visitedCountries
Items == 0..2

\* no item: the null of hoveredVisited and hoveredVisitedIndex
null == -1

\* the list elements bound when the scroll markup mounts: all of them, or
\* all but the second
MountedItems == {Items, Items \ {1}}

RECURSIVE Mesh_created(_, _)
\* the meshes createMeshes pushes for the items from index on: one for each
\* item whose element is there, none for the others
Mesh_created(present, index) ==
  IF index \notin Items THEN <<>>
  ELSE IF index \in present
       THEN <<[text |-> index, at |-> -1, hover |-> FALSE]>>
              \o Mesh_created(present, index + 1)
       ELSE Mesh_created(present, index + 1)

\* updateMesh reads meshes[index]: the place of that mesh in the sequence
Mesh_slot(index) == index + 1

RECURSIVE Mesh_updated(_, _, _)
\* the loop of updatePositions from index on: an item whose element is
\* missing is skipped, updateMesh(index, ..) returns when meshes[index]
\* is undefined
Mesh_updated(ms, present, index) ==
  IF index \notin Items THEN ms
  ELSE IF index \in present /\ Mesh_slot(index) \in DOMAIN ms
       THEN Mesh_updated([ms EXCEPT ![Mesh_slot(index)].at = index],
                         present, index + 1)
       ELSE Mesh_updated(ms, present, index + 1)

\* height of the first list element as initialize measures it, in 1/U px
Scroll_rectHeight == 400 * U

\* itemHeight of createInfiniteScroll: 0 until initialize has measured it
Scroll_itemHeight == IF scrollReady THEN Scroll_rectHeight ELSE 0

\* faulty period: one item short (sensitivity of C37)
Scroll_totalHeightShort(height, count) == height * (count - 1)

\* totalHeight of createInfiniteScroll.initialize(height, count)
Scroll_totalHeight(height, count) == height * count

\* Math.ceil(a / b) for b > 0
Ceil(a, b) == IF a >= 0 THEN (a + b - 1) \div b ELSE -((-a) \div b)

\* calculateItemPosition(index, scrollY) of createInfiniteScroll with the given
\* item height, item count and window.innerHeight (px); positions in 1/U px;
\* with totalHeight 0 the remainder, and so the result, is not a number
calculateItemPosition(index, y0, height, count, innerH) ==
  LET totalHeight == Scroll_totalHeight(height, count)
  IN  IF totalHeight = 0 THEN NaN
      ELSE LET scrollOffset == JsRem(y0, totalHeight)
               baseY == index * height
               y == baseY - scrollOffset
           IN  IF y < -(height * 2)
               THEN y + totalHeight * Ceil(Abs(y), totalHeight)
               ELSE IF y > innerH * U + height
               THEN y - totalHeight * Ceil(y - innerH * U, totalHeight)
               ELSE y

\* a frame callback of the scroll view goes on to updatePositions: the
\* tracker, the calculator and the mesh manager are there and isReady holds
Scroll_draws == scrollRunning /\ systems /\ scrollReady

\* createScrollVelocity.update on <<scrollY, targetScrollY, lastScrollY, velocity>>
Scroll_update(sv) ==
  LET y == sv[1] + MulFrac(sv[2] - sv[1], SV_LERP, 100)
      v == sv[4] + MulFrac((y - sv[3]) - sv[4], SV_LERP, 100)
  IN  <<y, sv[2], y, MulFrac(v, SV_DECAY, 100)>>

\* a stop that cancels nothing (sensitivity of C16)
Scroll_cancelsNever(raf) == FALSE

\* stopWebGLScroll cancels the frame whose id it holds: if (scrollRaf !== null)
Scroll_cancels(raf) == raf # "null"

\* stopWebGLScroll: the <<scrollRaf, animateQueue, loopQueue>> it leaves
stopWebGLScroll(raf, aq, lq) ==
  IF Scroll_cancels(raf)
  THEN <<"null",
         IF raf = "animate" /\ aq > 0 THEN aq - 1 ELSE aq,
         IF raf = "loop" /\ lq > 0 THEN lq - 1 ELSE lq>>
  ELSE <<raf, aq, lq>>

\* setScreen of the page; Svelte mounts or unmounts the scroll markup, and
\* binds canvasElement, before any timer or event runs; leaving the scroll
\* screen drops the scroll velocity tracker (its fields read 0 while there is
\* none)
setScreen(next) ==
  /\ variant = "inline"
  /\ inputs < MaxInputs
  /\ inputs' = inputs + 1
  /\ event' = "screen"
  /\ screen' = next
  /\ canvasElement' = (next = "scroll")
  /\ IF next = "scroll"
     THEN IF screen = "scroll" THEN UNCHANGED listItems
          ELSE listItems' \in MountedItems
     ELSE listItems' = {}
  /\ LET stopped == stopWebGLScroll(scrollRaf, animateQueue, loopQueue)
     IN  IF next = "scroll"
         THEN /\ timers' = Append(timers, "start")
              /\ UNCHANGED <<scrollInited, scrollRunning, scrollRaf, animateQueue,
                             loopQueue, systems, scrollReady, scrollAttached,
                             scrollY, targetScrollY, lastScrollY, velocity,
                             meshes>>
         ELSE /\ scrollRunning' = FALSE
              /\ scrollRaf' = stopped[1]
              /\ animateQueue' = stopped[2]
              /\ loopQueue' = stopped[3]
              /\ IF screen = "scroll"
                 THEN /\ scrollInited' = FALSE
                      /\ systems' = FALSE
                      /\ scrollReady' = FALSE
                      /\ scrollAttached' = FALSE
                      /\ scrollY' = 0
                      /\ targetScrollY' = 0
                      /\ lastScrollY' = 0
                      /\ velocity' = 0
                      /\ meshes' = <<>>
                 ELSE UNCHANGED <<scrollInited, systems, scrollReady, scrollAttached,
                                  scrollY, targetScrollY, lastScrollY, velocity,
                                  meshes>>
              /\ UNCHANGED timers
  /\ IF screen = "scroll" /\ next # "scroll"
     THEN hoveredVisited' = null /\ hoveredVisitedIndex' = null
     ELSE UNCHANGED hoverVars
  /\ UNCHANGED <<ticks, variant, innerWidth, innerHeight, rafQueue>>
  /\ UNCHANGED <<dragVars, gridVars, camVars, pickerVars>>

\* startWebGLScroll, run by the timer setScreen set
startWebGLScroll ==
  /\ scrollRunning' = TRUE
  /\ IF ~scrollInited
     THEN /\ timers' = Append(Tail(timers), "init")
          /\ UNCHANGED <<scrollRaf, loopQueue>>
     ELSE /\ timers' = Tail(timers)
          /\ scrollRaf' = IF scrollRaf = "null" THEN "loop" ELSE scrollRaf
          /\ loopQueue' = IF scrollRaf = "null" THEN loopQueue + 1 ELSE loopQueue
  /\ UNCHANGED <<canvasElement, scrollInited, animateQueue, systems, scrollReady,
                 scrollAttached, scrollY, targetScrollY, lastScrollY, velocity,
                 listItems, meshes>>

\* faulty guard: the test of scrollInited is left out (sensitivity of C35)
Scroll_initSkipsUnbound(inited, canvas) == ~canvas

\* the early returns of initWebGLScroll: if (scrollInited) return, and the
\* return when the canvas is not bound
Scroll_initSkips(inited, canvas) == inited \/ ~canvas

\* initWebGLScroll, run by the timer startWebGLScroll set; it ends in animate(),
\* which requests a frame and updates the (new, resting) scroll velocity
initWebGLScroll ==
  IF Scroll_initSkips(scrollInited, canvasElement)
  THEN /\ timers' = Tail(timers)
       /\ UNCHANGED <<canvasElement, scrollInited, scrollRunning, scrollRaf,
                      animateQueue, loopQueue, systems, scrollReady,
                      scrollAttached, scrollY, targetScrollY, lastScrollY, velocity,
                      listItems, meshes>>
  ELSE /\ timers' = Append(Tail(timers), "initialize")
       /\ systems' = TRUE
       /\ scrollReady' = FALSE
       /\ scrollAttached' = FALSE
       /\ scrollInited' = TRUE
       /\ scrollRunning' = TRUE
       /\ scrollRaf' = "animate"
       /\ animateQueue' = animateQueue + 1
       /\ scrollY' = 0
       /\ targetScrollY' = 0
       /\ lastScrollY' = 0
       /\ velocity' = 0
       /\ meshes' = <<>>
       /\ UNCHANGED <<canvasElement, loopQueue, listItems>>

\* initialize, the closure of initWebGLScroll run by the timer it set
Scroll_initialize ==
  /\ timers' = Tail(timers)
  /\ IF ~systems
     THEN UNCHANGED <<scrollReady, scrollAttached, meshes>>
     ELSE /\ scrollReady' = (scrollReady \/ 0 \in listItems)
          /\ meshes' = meshes \o Mesh_created(listItems, 0)
          /\ scrollAttached' = TRUE
  /\ UNCHANGED <<canvasElement, scrollInited, scrollRunning, scrollRaf,
                 animateQueue, loopQueue, systems,
                 scrollY, targetScrollY, lastScrollY, velocity, listItems>>

\* the oldest pending timer fires
TimerFire ==
  /\ variant = "inline"
  /\ timers # <<>>
  /\ event' = "timer"
  /\ \/ Head(timers) = "start" /\ startWebGLScroll
     \/ Head(timers) = "init" /\ initWebGLScroll
     \/ Head(timers) = "initialize" /\ Scroll_initialize
  /\ UNCHANGED <<ticks, hoverVars, variant, inputs, screen, innerWidth, innerHeight, rafQueue>>
  /\ UNCHANGED <<dragVars, gridVars, camVars, pickerVars>>

\* faulty wheel handler: the raw deltaY, the sensitivity left out
\* (sensitivity of C26)
Scroll_wheelDeltaRaw(dy) == dy * U

\* e.deltaY * scrollConfig.scrollSensitivity, in 1/U px
Scroll_wheelDelta(dy) == MulFrac(dy * U, scrollSensitivity, 10)

\* createScrollEvents.onWheel, attached to the scroll container
Scroll_onWheel(dy) ==
  /\ variant = "inline"
  /\ screen = "scroll"
  /\ scrollAttached
  /\ inputs < MaxInputs
  /\ wheels < MaxWheel
  /\ inputs' = inputs + 1
  /\ wheels' = wheels + 1
  /\ event' = "wheel"
  /\ targetScrollY' = targetScrollY + Scroll_wheelDelta(dy)
  /\ UNCHANGED <<canvasElement, scrollInited, scrollRunning, scrollRaf,
                 animateQueue, loopQueue, timers, systems, scrollReady,
                 scrollAttached, scrollY, lastScrollY, velocity,
                 listItems, meshes>>
  /\ UNCHANGED <<wheelListener, scrollTarget, scrollCurrent, scrollFrac,
                 scrollBaseIndex, scrollStretch, scrollDir, wheelSpeed,
                 lastWheelT, pickerLastT, pickerRafId, pickerQueue>>
  /\ UNCHANGED <<ticks, hoverVars, variant, screen, innerWidth, innerHeight, rafQueue>>
  /\ UNCHANGED <<dragVars, gridVars, camVars>>

\* the frame callbacks of the scroll view: animate, then the resume loop; each
\* returns when the view is not running, else requests the next frame and
\* updates the scroll velocity
Scroll_frame ==
  LET a == animateQueue > 0
      l == loopQueue > 0
      sv0 == <<scrollY, targetScrollY, lastScrollY, velocity>>
      sv1 == IF a /\ scrollRunning /\ systems THEN Scroll_update(sv0) ELSE sv0
      sv2 == IF l /\ scrollRunning /\ systems THEN Scroll_update(sv1) ELSE sv1
      raf1 == IF a /\ scrollRunning THEN "animate" ELSE scrollRaf
      draws == Scroll_draws
  IN  /\ animateQueue' = IF a /\ ~scrollRunning THEN animateQueue - 1 ELSE animateQueue
      /\ loopQueue' = IF l /\ ~scrollRunning THEN loopQueue - 1 ELSE loopQueue
      /\ scrollRaf' = IF l THEN (IF scrollRunning THEN "loop" ELSE "null") ELSE raf1
      /\ scrollY' = sv2[1]
      /\ targetScrollY' = sv2[2]
      /\ lastScrollY' = sv2[3]
      /\ velocity' = sv2[4]
      /\ meshes' = IF draws THEN Mesh_updated(meshes, listItems, 0) ELSE meshes
      /\ UNCHANGED <<canvasElement, scrollInited, scrollRunning, timers, systems,
                     scrollReady, scrollAttached, listItems>>

\* onResize of initWebGLScroll, a listener on window from initWebGLScroll to
\* the cleanup: the item height is measured again and the meshes are made
\* anew
Scroll_onResize ==
  /\ IF systems
     THEN /\ scrollReady' = (scrollReady \/ 0 \in listItems)
          /\ meshes' = Mesh_created(listItems, 0)
     ELSE UNCHANGED <<scrollReady, meshes>>
  /\ UNCHANGED <<canvasElement, scrollInited, scrollRunning, scrollRaf,
                 animateQueue, loopQueue, timers, systems,
                 scrollAttached, scrollY, targetScrollY, lastScrollY, velocity,
                 listItems>>

\* faulty shift test: the camera is never shifted (sensitivity of C32)
Cam_resizeShiftsNever(changed, down, dragging) == FALSE

\* faulty shift test: the camera is shifted during a drag too (sensitivity of C8)
Cam_resizeShiftsAlways(changed, down, dragging) == changed

\* readViewportSize shifts the camera by the change of the preset offset only
\* while no drag session is open
Cam_resizeShifts(changed, down, dragging) == changed /\ ~down /\ ~dragging

\* the window takes a new size and the resize listener runs readViewportSize
readViewportSize(size) ==
  /\ variant = "inline"
  /\ inputs < MaxInputs
  /\ inputs' = inputs + 1
  /\ event' = "resize"
  /\ innerWidth' = size[1]
  /\ innerHeight' = size[2]
  /\ vw' = size[1]
  /\ vh' = size[2]
  /\ LET nextOffset == computeGridYOffset(size[1])
         diff == (nextOffset - gridYOffset) * U
         shift == Cam_resizeShifts(nextOffset # gridYOffset, isPointerDown, isDragging)
     IN  /\ gridYOffset' = nextOffset
         /\ camY' = IF shift THEN camY + diff ELSE camY
         /\ camTargetY' = IF shift THEN camTargetY + diff ELSE camTargetY
  /\ UNCHANGED <<ticks, hoverVars, variant, screen, rafQueue>>
  /\ UNCHANGED <<camX, camTargetX, startCamX, startCamY, velX, velY,
                 lastPX, lastPY, lastRafT, rafCam>>
  /\ UNCHANGED <<dragVars, gridVars, pickerVars>>
  /\ Scroll_onResize

\* setHover(index, isHover) of the mesh manager on its meshes
Mesh_setHover(ms, index, isHover) ==
  IF Mesh_slot(index) \in DOMAIN ms
  THEN [ms EXCEPT ![Mesh_slot(index)].hover = isHover]
  ELSE ms

\* the fields no mouse handler of the visited list writes
Hover_frame ==
  /\ UNCHANGED <<canvasElement, scrollInited, scrollRunning, scrollRaf,
                 animateQueue, loopQueue, timers, systems, scrollReady,
                 scrollAttached, scrollY, targetScrollY, lastScrollY, velocity,
                 listItems>>
  /\ UNCHANGED <<ticks, variant, screen, innerWidth, innerHeight, rafQueue>>
  /\ UNCHANGED <<dragVars, gridVars, camVars, pickerVars>>

\* mouseenter of the list item index, with setWebGLHover(index): the mouse
\* comes from outside the items
onMouseEnter(index) ==
  /\ variant = "inline"
  /\ screen = "scroll"
  /\ index \in listItems
  /\ hoveredVisited = null
  /\ inputs < MaxInputs
  /\ inputs' = inputs + 1
  /\ event' = "enter"
  /\ hoveredVisited' = index
  /\ IF ~systems
     THEN UNCHANGED <<meshes, hoveredVisitedIndex>>
     ELSE LET cleared ==
                IF hoveredVisitedIndex # null /\ hoveredVisitedIndex # index
                THEN Mesh_setHover(meshes, hoveredVisitedIndex, FALSE)
                ELSE meshes
          IN  /\ meshes' = Mesh_setHover(cleared, index, TRUE)
              /\ hoveredVisitedIndex' = index
  /\ Hover_frame

\* mouseleave of the list item under the mouse, with clearWebGLHover()
onMouseLeave ==
  /\ variant = "inline"
  /\ screen = "scroll"
  /\ hoveredVisited # null
  /\ inputs < MaxInputs
  /\ inputs' = inputs + 1
  /\ event' = "leave"
  /\ hoveredVisited' = null
  /\ IF ~systems
     THEN UNCHANGED <<meshes, hoveredVisitedIndex>>
     ELSE /\ meshes' = IF hoveredVisitedIndex # null
                       THEN Mesh_setHover(meshes, hoveredVisitedIndex, FALSE)
                       ELSE meshes
          /\ hoveredVisitedIndex' = null
  /\ Hover_frame

\* a list element that was missing is bound
ElementAppears(index) ==
  /\ variant = "inline"
  /\ screen = "scroll"
  /\ index \notin listItems
  /\ inputs < MaxInputs
  /\ inputs' = inputs + 1
  /\ event' = "bind"
  /\ listItems' = listItems \cup {index}
  /\ UNCHANGED <<canvasElement, scrollInited, scrollRunning, scrollRaf,
                 animateQueue, loopQueue, timers, systems, scrollReady,
                 scrollAttached, scrollY, targetScrollY, lastScrollY, velocity,
                 meshes>>
  /\ UNCHANGED <<ticks, hoverVars, variant, screen, innerWidth, innerHeight, rafQueue>>
  /\ UNCHANGED <<dragVars, gridVars, camVars, pickerVars>>

(* ------------------------------ frames --------------------------------- *)

\* one animation frame: the browser runs every callback requested since the
\* previous frame, all with the same timestamp; ms is the time since the
\* previous frame
FrameBody(ms) ==
  /\ rafQueue > 0 \/ pickerQueue > 0 \/ animateQueue > 0 \/ loopQueue > 0
  /\ IF rafQueue > 0
     THEN \/ variant = "lib" /\ Grid_tick(ms) /\ UNCHANGED camVars
          \/ variant = "inline" /\ Cam_tick(ms) /\ UNCHANGED gridVars
     ELSE UNCHANGED <<rafQueue, gridVars, camVars>>
  /\ IF pickerQueue > 0 THEN Picker_tick(ms) ELSE UNCHANGED pickerVars
  /\ IF animateQueue > 0 \/ loopQueue > 0 THEN Scroll_frame ELSE UNCHANGED scrollVars
  /\ event' = "frame"
  /\ UNCHANGED <<variant, screen, innerWidth, innerHeight>>
  /\ UNCHANGED <<dragVars, hoverVars>>

Frame(ms) == FrameBody(ms) /\ UNCHANGED <<inputs, ticks>>

\* a frame whose callbacks read a clock that stepped back; the step back is an
\* event of the environment and is counted with the inputs
FrameBack(ms) ==
  /\ inputs < MaxInputs
  /\ FrameBody(ms)
  /\ inputs' = inputs + 1
  /\ UNCHANGED ticks

(* ------- the page embedded in scrollConfig.ts (variant "config") ------- *)

\* The page keeps one flag, isDragging, set by the pointer-down itself; its
\* grid fields carry the names of createInfiniteGrid's and its feel constants
\* have the same values. Its scroll mode is held in the fields of the same
\* role: scrollTarget, scrollCurrent, scrollLastT (pickerLastT), scrollRafId
\* (pickerRafId, pickerQueue), scrollPrev (lastScrollY), scrollVel (velocity).

\* feel constants of the scroll mode, the rates in tenths per second
SCROLL_RESP == 75
SCROLL_FRICTION_PER_SEC == 24
SCROLL_MAX_VEL == 2600

\* faulty switch: the drag is left as it is (sensitivity of C33)
Page_leavesGridNever(next) == FALSE

\* setScreen's test for resetting the drag: if (screen !== 'grid')
Page_leavesGrid(next) == next # "grid"

\* setScreen of the page, with enableScrollMode / disableScrollMode
Page_setScreen(next) ==
  /\ variant = "config"
  /\ inputs < MaxInputs
  /\ inputs' = inputs + 1
  /\ event' = "screen"
  /\ screen' = next
  /\ isDragging' = IF Page_leavesGrid(next) THEN FALSE ELSE isDragging
  /\ velocityX' = IF Page_leavesGrid(next) THEN 0 ELSE velocityX
  /\ velocityY' = IF Page_leavesGrid(next) THEN 0 ELSE velocityY
  /\ IF next = "scroll"
     THEN LET loop == Picker_start(pickerRafId, pickerQueue)
          IN  /\ scrollTarget' = 0
              /\ scrollCurrent' = 0
              /\ velocity' = 0
              /\ lastScrollY' = 0
              /\ pickerLastT' = 0
              /\ wheelListener' = TRUE
              /\ pickerRafId' = loop[1]
              /\ pickerQueue' = loop[2]
     ELSE /\ wheelListener' = FALSE
          /\ pickerRafId' = "null"
          /\ pickerQueue' = IF pickerRafId # "null" THEN pickerQueue - 1
                            ELSE pickerQueue
          /\ pickerLastT' = 0
          /\ UNCHANGED <<scrollTarget, scrollCurrent, velocity, lastScrollY>>
  /\ UNCHANGED <<ticks, hoverVars, variant, innerWidth, innerHeight, rafQueue>>
  /\ UNCHANGED <<isPointerDown, startX, startY>>
  /\ UNCHANGED <<container, isDraggingStore, currentOffsetX, currentOffsetY,
                 offsetX, offsetY, targetOffsetX, targetOffsetY,
                 lastClientX, lastClientY, lastRafTime, rafId,
                 lastCenterCol, lastCenterRow, visibleTiles, visibleTilesId>>
  /\ UNCHANGED <<wheels, scrollFrac, scrollBaseIndex, scrollStretch, scrollDir,
                 wheelSpeed, lastWheelT>>
  /\ UNCHANGED <<canvasElement, scrollInited, scrollRunning, scrollRaf,
                 animateQueue, loopQueue, timers, systems, scrollReady,
                 scrollAttached, scrollY, targetScrollY, listItems, meshes>>
  /\ UNCHANGED camVars

\* the fields no pointer handler of the page writes
Page_pointerFrame ==
  /\ UNCHANGED <<ticks, hoverVars, variant, screen, innerWidth, innerHeight>>
  /\ UNCHANGED <<isPointerDown, container, isDraggingStore,
                 currentOffsetX, currentOffsetY, lastRafTime,
                 lastCenterCol, lastCenterRow, visibleTiles, visibleTilesId>>
  /\ UNCHANGED <<camVars, pickerVars, scrollVars>>

\* handlePointerDown, bound to the grid element, which is there on the grid
\* screen only
Page_handlePointerDown(p) ==
  /\ variant = "config"
  /\ screen = "grid"
  /\ inputs < MaxInputs
  /\ inputs' = inputs + 1
  /\ event' = "down"
  /\ LET loop == Grid_startLoop(rafId, rafQueue)
     IN  /\ isDragging' = TRUE
         /\ startX' = p[1]
         /\ startY' = p[2]
         /\ offsetX' = currentOffsetX
         /\ offsetY' = currentOffsetY
         /\ velocityX' = 0
         /\ velocityY' = 0
         /\ lastClientX' = p[1]
         /\ lastClientY' = p[2]
         /\ targetOffsetX' = currentOffsetX
         /\ targetOffsetY' = currentOffsetY
         /\ rafId' = loop[1]
         /\ rafQueue' = loop[2]
  /\ Page_pointerFrame

\* handlePointerMove, bound to window; gap = now - lastMoveTime
Page_handlePointerMove(p, gap) ==
  /\ variant = "config"
  /\ inputs < MaxInputs
  /\ inputs' = inputs + 1
  /\ event' = "move"
  /\ IF ~isDragging
     THEN UNCHANGED <<rafQueue, isDragging, startX, startY, offsetX, offsetY,
                      targetOffsetX, targetOffsetY, velocityX, velocityY,
                      lastClientX, lastClientY, rafId>>
     ELSE LET loop == Grid_startLoop(rafId, rafQueue)
          IN  /\ targetOffsetX' = Grid_dragTarget(offsetX, p[1] - startX)
              /\ targetOffsetY' = Grid_dragTarget(offsetY, p[2] - startY)
              /\ velocityX' = Grid_smoothVelocity(velocityX, p[1] - lastClientX, gap)
              /\ velocityY' = Grid_smoothVelocity(velocityY, p[2] - lastClientY, gap)
              /\ lastClientX' = p[1]
              /\ lastClientY' = p[2]
              /\ rafId' = loop[1]
              /\ rafQueue' = loop[2]
              /\ UNCHANGED <<isDragging, startX, startY, offsetX, offsetY>>
  /\ Page_pointerFrame

\* handlePointerUp, bound to window; also the pointercancel handler
Page_handlePointerUp ==
  /\ variant = "config"
  /\ inputs < MaxInputs
  /\ inputs' = inputs + 1
  /\ event' = "up"
  /\ IF ~isDragging
     THEN UNCHANGED <<rafQueue, isDragging, velocityX, velocityY, rafId>>
     ELSE LET loop == Grid_startLoop(rafId, rafQueue)
          IN  /\ isDragging' = FALSE
              /\ velocityX' = Grid_boost(velocityX)
              /\ velocityY' = Grid_boost(velocityY)
              /\ rafId' = loop[1]
              /\ rafQueue' = loop[2]
  /\ UNCHANGED <<startX, startY, offsetX, offsetY, targetOffsetX, targetOffsetY,
                 lastClientX, lastClientY>>
  /\ Page_pointerFrame

\* onWheelScroll, on window while the scroll mode is enabled
Page_onWheelScroll(dy) ==
  /\ variant = "config"
  /\ wheelListener
  /\ screen = "scroll"
  /\ inputs < MaxInputs
  /\ wheels < MaxWheel
  /\ inputs' = inputs + 1
  /\ wheels' = wheels + 1
  /\ event' = "wheel"
  /\ LET loop == Picker_start(pickerRafId, pickerQueue)
     IN  /\ scrollTarget' = scrollTarget + dy * U
         /\ pickerRafId' = loop[1]
         /\ pickerQueue' = loop[2]
  /\ UNCHANGED <<wheelListener, scrollCurrent, scrollFrac, scrollBaseIndex,
                 scrollStretch, scrollDir, wheelSpeed, lastWheelT, pickerLastT>>
  /\ UNCHANGED <<ticks, hoverVars, variant, screen, innerWidth, innerHeight, rafQueue>>
  /\ UNCHANGED <<dragVars, gridVars, camVars, scrollVars>>

\* the tick of startScrollLoop; the callback is held only on the scroll
\* screen, since disableScrollMode cancels it
Page_scrollTick(ms) ==
  /\ \E dt \in {IF pickerLastT = 0 THEN 0 ELSE ClampDt(ms)} :
     \E cur \in {scrollCurrent
                   + MulFrac(scrollTarget - scrollCurrent,
                             ONE - ExpNeg(SCROLL_RESP * dt), ONE)} :
     \E rawVel \in {IF dt = 0 THEN (cur - lastScrollY) * 10000
                    ELSE ((cur - lastScrollY) * 1000) \div dt} :
     \E friction \in {ExpNeg(SCROLL_FRICTION_PER_SEC * dt)} :
     \E vel \in {clamp(MulFrac(velocity, friction, ONE)
                         + MulFrac(rawVel, ONE - friction, ONE),
                       -(SCROLL_MAX_VEL * U), SCROLL_MAX_VEL * U)} :
     \E stop \in {Abs(scrollTarget - cur) < 30 /\ Abs(vel) < 12 * U} :
         /\ scrollCurrent' = cur
         /\ lastScrollY' = cur
         /\ velocity' = vel
         /\ pickerLastT' = 1
         /\ pickerRafId' = IF stop THEN "null" ELSE "frame"
         /\ pickerQueue' = IF stop THEN pickerQueue - 1 ELSE pickerQueue
  /\ UNCHANGED <<wheelListener, wheels, scrollTarget, scrollFrac,
                 scrollBaseIndex, scrollStretch, scrollDir, wheelSpeed,
                 lastWheelT>>
  /\ UNCHANGED <<canvasElement, scrollInited, scrollRunning, scrollRaf,
                 animateQueue, loopQueue, timers, systems, scrollReady,
                 scrollAttached, scrollY, targetScrollY, listItems, meshes>>

\* one animation frame of the page: the grid tick, whose statements are those
\* of createInfiniteGrid's (the extra test visibleTiles.length === 0 of its
\* gate is false from onMount on), and the scroll tick
Page_Frame(ms) ==
  /\ variant = "config"
  /\ rafQueue > 0 \/ pickerQueue > 0
  /\ IF rafQueue > 0 THEN Grid_tick(ms) ELSE UNCHANGED <<rafQueue, gridVars>>
  /\ IF pickerQueue > 0 THEN Page_scrollTick(ms)
     ELSE UNCHANGED <<pickerVars, scrollVars>>
  /\ event' = "frame"
  /\ UNCHANGED <<ticks, hoverVars, inputs, variant, screen, innerWidth, innerHeight>>
  /\ UNCHANGED <<dragVars, camVars>>

(* --------------------------- specification ----------------------------- *)

\* the picker page after onMount: the grid is bound and centred
InitLib ==
  /\ variant = "lib"
  /\ LET size == MountViewport IN
       /\ innerWidth = size[1]
       /\ innerHeight = size[2]
       /\ currentOffsetX = (size[1] * U) \div 2
       /\ currentOffsetY = (size[2] * U) \div 2
       /\ targetOffsetX = (size[1] * U) \div 2
       /\ targetOffsetY = (size[2] * U) \div 2
       /\ lastCenterCol = 0
       /\ lastCenterRow = 0
       /\ visibleTiles =
            Grid_computeVisibleTiles(
              Grid_getCenterCell((size[1] * U) \div 2, (size[2] * U) \div 2))
       /\ visibleTilesId = 0
  /\ container = TRUE
  /\ isDraggingStore = FALSE
  /\ offsetX = 0
  /\ offsetY = 0
  /\ velocityX = 0
  /\ velocityY = 0
  /\ lastClientX = 0
  /\ lastClientY = 0
  /\ lastRafTime = 0
  /\ rafId = "frame"
  /\ rafQueue = 1
  /\ camX = 0
  /\ camY = 0
  /\ camTargetX = 0
  /\ camTargetY = 0
  /\ startCamX = 0
  /\ startCamY = 0
  /\ velX = 0
  /\ velY = 0
  /\ lastPX = 0
  /\ lastPY = 0
  /\ lastRafT = 0
  /\ rafCam = "null"
  /\ vw = 0
  /\ vh = 0
  /\ gridYOffset = 0

\* the page after onMount: the camera sits on the home tile
InitInline ==
  /\ variant = "inline"
  /\ LET size == MountViewport IN
       /\ innerWidth = size[1]
       /\ innerHeight = size[2]
       /\ vw = size[1]
       /\ vh = size[2]
       /\ gridYOffset = computeGridYOffset(size[1])
       /\ camY = computeGridYOffset(size[1]) * U
       /\ camTargetY = computeGridYOffset(size[1]) * U
  /\ camX = 0
  /\ camTargetX = 0
  /\ startCamX = 0
  /\ startCamY = 0
  /\ velX = 0
  /\ velY = 0
  /\ lastPX = 0
  /\ lastPY = 0
  /\ lastRafT = 0
  /\ rafCam = "null"
  /\ rafQueue = 0
  /\ container = FALSE
  /\ isDraggingStore = FALSE
  /\ currentOffsetX = 0
  /\ currentOffsetY = 0
  /\ offsetX = 0
  /\ offsetY = 0
  /\ targetOffsetX = 0
  /\ targetOffsetY = 0
  /\ velocityX = 0
  /\ velocityY = 0
  /\ lastClientX = 0
  /\ lastClientY = 0
  /\ lastRafTime = 0
  /\ rafId = "null"
  /\ lastCenterCol = NaN
  /\ lastCenterRow = NaN
  /\ visibleTiles = <<>>
  /\ visibleTilesId = 0

\* createPickerScroll as constructed; the page mounts on the grid screen
InitPicker ==
  /\ wheelListener = FALSE
  /\ wheels = 0
  /\ scrollTarget = 0
  /\ scrollCurrent = 0
  /\ scrollFrac = 0
  /\ scrollBaseIndex = 0
  /\ scrollStretch = 0
  /\ scrollDir = 1
  /\ wheelSpeed = 0
  /\ lastWheelT = 0
  /\ pickerLastT = 0
  /\ pickerRafId = "null"
  /\ pickerQueue = 0

\* the scroll view before its first visit
InitScroll ==
  /\ canvasElement = FALSE
  /\ scrollInited = FALSE
  /\ scrollRunning = FALSE
  /\ scrollRaf = "null"
  /\ animateQueue = 0
  /\ loopQueue = 0
  /\ timers = <<>>
  /\ systems = FALSE
  /\ scrollReady = FALSE
  /\ scrollAttached = FALSE
  /\ scrollY = 0
  /\ targetScrollY = 0
  /\ lastScrollY = 0
  /\ velocity = 0
  /\ listItems = {}
  /\ meshes = <<>>
  /\ hoveredVisited = null
  /\ hoveredVisitedIndex = null

Init ==
  /\ inputs = 0
  /\ ticks = 0
  /\ event = "mount"
  /\ screen = "grid"
  /\ isPointerDown = FALSE
  /\ isDragging = FALSE
  /\ startX = 0
  /\ startY = 0
  /\ InitPicker
  /\ InitScroll
  /\ (InitLib \/ InitInline)

Next ==
  \/ \E ms \in DtMs : Frame(ms)
  \/ \E p \in DownPoints : Grid_onPointerDown(p)
  \/ \E p \in Points, gap \in MoveGapMs : Grid_onPointerMove(p, gap)
  \/ Grid_onPointerUp
  \/ \E next \in {"grid", "scroll"} : Picker_setScreen(next)
  \/ \E size \in Viewports : Picker_resize(size)
  \/ \E dy \in WheelDeltas, gap \in WheelGapMs : Picker_onWheel(dy, gap)
  \/ \E p \in DownPoints : onGridPointerDown(p)
  \/ \E p \in Points, gap \in MoveGapMs : onGridPointerMove(p, gap)
  \/ onGridPointerUp
  \/ \E next \in {"grid", "scroll"} : setScreen(next)
  \/ \E size \in Viewports : readViewportSize(size)
  \/ TimerFire
  \/ \E dy \in WheelDeltas : Scroll_onWheel(dy)
  \/ \E index \in Items : ElementAppears(index)

Spec == Init /\ [][Next]_vars

\* frames advance the clock: every frame observes dt > 0
FrameLive == \E ms \in DtMs \ {0} : Frame(ms)

NextLive ==
  \/ FrameLive
  \/ \E p \in DownPoints : Grid_onPointerDown(p)
  \/ \E p \in Points, gap \in MoveGapMs : Grid_onPointerMove(p, gap)
  \/ Grid_onPointerUp
  \/ \E next \in {"grid", "scroll"} : Picker_setScreen(next)
  \/ \E size \in Viewports : Picker_resize(size)
  \/ \E p \in DownPoints : onGridPointerDown(p)
  \/ \E p \in Points, gap \in MoveGapMs : onGridPointerMove(p, gap)
  \/ onGridPointerUp
  \/ \E next \in {"grid", "scroll"} : setScreen(next)
  \/ \E size \in Viewports : readViewportSize(size)
  \/ TimerFire

\* the camera under fair frames: the browser runs every frame callback it
\* holds; the wheel, which no camera variable depends on, is left at rest
SpecLive == Init /\ [][NextLive]_vars /\ WF_vars(FrameLive)

\* deltaY of the wheel impulse, either direction
ImpulseDeltas == {500, -500}

\* the clock of the impulse scenario: frames 1/60 s apart, in whole ms
\* (17, 17, 16, ..: 60 frames are 1000 ms)
ImpulseDt(k) == IF k % 3 = 2 THEN 16 ELSE 17

\* the one wheel event of the scenario, delivered to the picker at rest
ImpulseWheel(dy) ==
  /\ wheels = 0
  /\ \E gap \in WheelGapMs : Picker_onWheel(dy, gap)

\* one of the 60 frames that follow the wheel event
ImpulseTick ==
  /\ wheels = 1
  /\ ticks < 60
  /\ FrameBody(ImpulseDt(ticks))
  /\ ticks' = ticks + 1
  /\ UNCHANGED inputs

NextImpulse ==
  \/ inputs = 0 /\ Picker_setScreen("scroll")
  \/ wheels = 0 /\ Frame(ImpulseDt(0))
  \/ \E dy \in ImpulseDeltas : ImpulseWheel(dy)
  \/ ImpulseTick

\* the impulse scenario: the picker view is entered, one wheel event arrives
\* at rest, then 60 frames run with no further input
SpecImpulse == Init /\ [][NextImpulse]_vars

NextPicker ==
  \/ FrameLive
  \/ \E next \in {"grid", "scroll"} : Picker_setScreen(next)
  \/ \E dy \in WheelDeltas, gap \in WheelGapMs : Picker_onWheel(dy, gap)

\* the picker under fair frames: view switches and wheel events, and the
\* browser runs every frame callback it holds
SpecPicker == Init /\ [][NextPicker]_vars /\ WF_vars(FrameLive)

NextClock ==
  \/ Next
  \/ \E ms \in BackMs : FrameBack(ms)

\* the page under a clock that is not monotonic
SpecClock == Init /\ [][NextClock]_vars

\* the page of scrollConfig.ts after onMount: the grid is centred, its tiles
\* are primed and its loop is started
InitPage ==
  /\ variant = "config"
  /\ inputs = 0
  /\ ticks = 0
  /\ event = "mount"
  /\ screen = "grid"
  /\ isPointerDown = FALSE
  /\ isDragging = FALSE
  /\ startX = 0
  /\ startY = 0
  /\ InitPicker
  /\ InitScroll
  /\ LET size == MountViewport IN
       /\ innerWidth = size[1]
       /\ innerHeight = size[2]
       /\ currentOffsetX = (size[1] * U) \div 2
       /\ currentOffsetY = (size[2] * U) \div 2
       /\ targetOffsetX = (size[1] * U) \div 2
       /\ targetOffsetY = (size[2] * U) \div 2
       /\ lastCenterCol = 0
       /\ lastCenterRow = 0
       /\ visibleTiles =
            Grid_computeVisibleTiles(
              Grid_getCenterCell((size[1] * U) \div 2, (size[2] * U) \div 2))
       /\ visibleTilesId = 0
  /\ container = TRUE
  /\ isDraggingStore = FALSE
  /\ offsetX = 0
  /\ offsetY = 0
  /\ velocityX = 0
  /\ velocityY = 0
  /\ lastClientX = 0
  /\ lastClientY = 0
  /\ lastRafTime = 0
  /\ rafId = "frame"
  /\ rafQueue = 1
  /\ camX = 0 /\ camY = 0 /\ camTargetX = 0 /\ camTargetY = 0
  /\ startCamX = 0 /\ startCamY = 0 /\ velX = 0 /\ velY = 0
  /\ lastPX = 0 /\ lastPY = 0 /\ lastRafT = 0 /\ rafCam = "null"
  /\ vw = 0 /\ vh = 0 /\ gridYOffset = 0

NextPage ==
  \/ \E ms \in DtMs : Page_Frame(ms)
  \/ \E p \in DownPoints : Page_handlePointerDown(p)
  \/ \E p \in Points, gap \in MoveGapMs : Page_handlePointerMove(p, gap)
  \/ Page_handlePointerUp
  \/ \E next \in {"grid", "scroll"} : Page_setScreen(next)
  \/ \E dy \in WheelDeltas : Page_onWheelScroll(dy)

\* the page embedded in scrollConfig.ts
SpecPage == InitPage /\ [][NextPage]_vars

NextWheel ==
  \/ \E ms \in DtMs : Frame(ms)
  \/ \E next \in {"grid", "scroll"} : Picker_setScreen(next)
  \/ \E dy \in WheelDeltas \cup {0}, gap \in WheelGapMs : Picker_onWheel(dy, gap)

\* the picker under wheel events of either direction and of no travel, and
\* frames with dt >= 0
SpecWheel == Init /\ [][NextWheel]_vars

NextHover ==
  \/ \E ms \in DtMs : Frame(ms)
  \/ \E next \in {"grid", "scroll"} : setScreen(next)
  \/ \E size \in Viewports : readViewportSize(size)
  \/ TimerFire
  \/ \E index \in Items : onMouseEnter(index)
  \/ onMouseLeave

\* the visited list under the mouse: screen switches, timers, frames, window
\* resizes and the mouse entering and leaving the list items
SpecHover == Init /\ [][NextHover]_vars

(* ------------------------- the camera, by role ------------------------- *)

Lib == variant = "lib"

Running == IF Lib THEN rafId # "null" ELSE rafCam # "null"

Stopped == ~Running

CurX == IF Lib THEN currentOffsetX ELSE camX
CurY == IF Lib THEN currentOffsetY ELSE camY
TargetX == IF Lib THEN targetOffsetX ELSE camTargetX
TargetY == IF Lib THEN targetOffsetY ELSE camTargetY
VelocityX == IF Lib THEN velocityX ELSE velX
VelocityY == IF Lib THEN velocityY ELSE velY
OriginX == IF Lib THEN offsetX ELSE startCamX
OriginY == IF Lib THEN offsetY ELSE startCamY
StopDist == IF Lib THEN Grid_STOP_DIST ELSE Cam_STOP_DIST

motion == <<CurX, CurY, TargetX, TargetY, VelocityX, VelocityY>>

Settled ==
  /\ ~isDragging
  /\ VelocityX = 0
  /\ VelocityY = 0
  /\ HypotLt(TargetX - CurX, TargetY - CurY, StopDist)

\* a step in which a frame callback of the camera runs (frames, and only
\* frames, leave event = "frame")
TickStep == rafQueue > 0 /\ event' = "frame" /\ \E ms \in DtMs : Frame(ms)

DownStep(p) == Grid_onPointerDown(p) \/ onGridPointerDown(p)

MoveStep(p) == \E gap \in MoveGapMs : Grid_onPointerMove(p, gap) \/ onGridPointerMove(p, gap)

UpStep == Grid_onPointerUp \/ onGridPointerUp

FrictionPerSec == IF Lib THEN Grid_FRICTION_PER_SEC ELSE Cam_FRICTION_PER_SEC

StopSpeed == IF Lib THEN Grid_STOP_SPEED ELSE Cam_STOP_SPEED

\* the pointer position of the last sample taken
LastPointerX == IF Lib THEN lastClientX ELSE lastPX

\* the time of the previous tick as the camera tick finds it (0: none)
LastTick == IF Lib THEN lastRafTime ELSE lastRafT

\* a step in which a frame callback of the picker runs
PickerTickStep == pickerQueue > 0 /\ event' = "frame" /\ \E ms \in DtMs : Frame(ms)

(* ------------------------------- claims -------------------------------- *)

\* C1: once the drag is released and no further input arrives, frames with
\* dt > 0 bring the camera driver to Stopped: from every state that is not
\* dragging and has received its last input, Stopped is reached.
C1_Termination == (inputs = MaxInputs /\ ~isDragging) ~> Stopped

\* C1 witness: the driver is stopped, the pointer is up, and the camera rests
\* away from where it was mounted: a drag was released and its glide ended.
C1_Witness ==
  /\ Stopped
  /\ ~isPointerDown
  /\ inputs = MaxInputs
  /\ TargetX # (IF Lib THEN (MountViewport[1] * U) \div 2 ELSE 0)

\* C2: the driver leaves Running only in a tick, and only into a settled
\* state (not dragging, velocity exactly 0, |target - current| < epsilon);
\* no input handler stops it; Stopped always implies settled.
C2_StopCondition ==
  /\ [](Stopped => Settled)
  /\ [][(Running /\ Stopped') => (TickStep /\ inputs' = inputs /\ Settled')]_vars

\* C2 witness: the driver stopped by itself after the camera was dragged.
C2_Witness ==
  /\ Stopped
  /\ Settled
  /\ inputs > 0
  /\ CurX # (IF Lib THEN (MountViewport[1] * U) \div 2 ELSE 0)
  /\ variant = "inline"

\* C3: every driver holds at most one scheduled tick callback: the number of
\* callbacks the browser holds for a driver is 1 while its frame id is set
\* and 0 while it is null, whatever input handlers called start meanwhile.
C3_IdempotentStart ==
  /\ rafQueue = (IF Running THEN 1 ELSE 0)
  /\ pickerQueue = (IF pickerRafId # "null" THEN 1 ELSE 0)

\* C3 witness: two wheel events arrived before the tick scheduled by the
\* first had run, so the second called start while a tick was scheduled.
C3_Witness ==
  /\ wheels = 2
  /\ wheelSpeed > 0
  /\ scrollCurrent = 0
  /\ pickerLastT = 0
  /\ pickerRafId = "frame"
  /\ pickerQueue = 1

\* C4: isDragging is set only by a pointer-move received while the pointer is
\* down whose point lies DRAG_THRESHOLD_PX or more from pointerStart; while the
\* pointer is down and the drag stays unarmed, no step changes target, current
\* or velocity.
C4_ThresholdGate ==
  [][/\ (~isDragging /\ isDragging') =>
          /\ isPointerDown
          /\ \E p \in Points :
               /\ MoveStep(p)
               /\ (p[1] - startX) * (p[1] - startX) + (p[2] - startY) * (p[2] - startY)
                    >= DRAG_THRESHOLD_PX * DRAG_THRESHOLD_PX
     /\ (isPointerDown /\ ~isDragging /\ ~isDragging') => UNCHANGED motion
    ]_vars

\* C4 witness: a click ended (down, a move below the threshold, up) and the
\* camera is where it was mounted.
C4_Witness ==
  /\ inputs = MaxInputs
  /\ ~isPointerDown
  /\ ~isDragging
  /\ startX # 0
  /\ (IF Lib THEN lastClientX ELSE lastPX) = startX
  /\ TargetX = (IF Lib THEN (MountViewport[1] * U) \div 2 ELSE 0)
  /\ screen = "grid"

\* C5 (as claimed): after every pointer-up or pointer-cancel the controller
\* is Idle: the pointer-down flag and the dragging flag are both false.
C5_ReleaseEndsSession ==
  [][UpStep => (~isPointerDown' /\ ~isDragging')]_vars

\* C6: after onPointerDown on the grid screen, pointerStart is the event
\* point, originOffset = target = current, velocity is (0,0) and the driver is
\* Running with one frame requested.
C6_PointerDownPost ==
  [][\A p \in Points :
       DownStep(p) =>
         /\ startX' = p[1]
         /\ startY' = p[2]
         /\ isPointerDown'
         /\ ~isDragging'
         /\ OriginX' = CurX /\ OriginY' = CurY
         /\ TargetX' = CurX /\ TargetY' = CurY
         /\ CurX' = CurX /\ CurY' = CurY
         /\ VelocityX' = 0 /\ VelocityY' = 0
         /\ Running'
         /\ rafQueue' = 1
    ]_vars

\* C6 witness: a pointer-down has just been taken while the camera was away
\* from its target.
C6_Witness ==
  /\ isPointerDown
  /\ ~isDragging
  /\ inputs = MaxInputs
  /\ TargetX = CurX
  /\ OriginX = CurX
  /\ VelocityX = 0
  /\ CurX # (IF Lib THEN (MountViewport[1] * U) \div 2 ELSE 0)

\* C7 (as claimed): every pointer-move received while Dragging sets
\* target = originOffset + (point - pointerStart) on each axis.
C7_DragTarget ==
  [][\A p \in Points :
       (isDragging /\ MoveStep(p)) =>
         /\ TargetX' = OriginX' + (p[1] - startX) * U
         /\ TargetY' = OriginY' + (p[2] - startY) * U
    ]_vars

\* C8: when the drag is armed, originOffset equals the current smoothed
\* position, whatever ticks and resizes came between pointer-down and the move.
C8_ArmBaseline ==
  [][(~isDragging /\ isDragging') => (OriginX' = CurX' /\ OriginY' = CurY')]_vars

\* C8 witness: a drag was armed after the window was resized while the
\* pointer was down.
C8_Witness ==
  /\ isDragging
  /\ isPointerDown
  /\ innerWidth # MountViewport[1]
  /\ OriginX = CurX
  /\ OriginY = CurY
  /\ TargetX # CurX

\* C9 (as claimed): a pointer-up received while Dragging multiplies each
\* velocity component by INERTIA_BOOST once, clears isDragging, leaves target
\* and current unchanged and leaves the driver Running.
C9_ReleaseBoost ==
  [][(isDragging /\ UpStep) =>
       /\ VelocityX' = MulFrac(VelocityX, IF Lib THEN Grid_INERTIA_BOOST ELSE Cam_INERTIA_BOOST, 100)
       /\ VelocityY' = MulFrac(VelocityY, IF Lib THEN Grid_INERTIA_BOOST ELSE Cam_INERTIA_BOOST, 100)
       /\ ~isDragging'
       /\ UNCHANGED <<TargetX, TargetY, CurX, CurY>>
       /\ Running'
    ]_vars

\* C10 (as claimed): a pointer-up received while the pointer is down and the
\* drag unarmed clears the pointer-down and drag flags and changes neither
\* target, current, velocity nor the running state; a pointer-up or
\* pointer-move received while the pointer is not down changes nothing.
C10_ClickRelease ==
  [][/\ (isPointerDown /\ ~isDragging /\ UpStep) =>
          /\ ~isPointerDown'
          /\ ~isDragging'
          /\ UNCHANGED <<motion, Running, rafQueue>>
     /\ (~isPointerDown /\ (UpStep \/ \E p \in Points : MoveStep(p))) =>
          UNCHANGED <<dragVars, gridVars, camVars, rafQueue, screen>>
    ]_vars

\* c2 lies between c and t: the follower moved from c toward t, not past it
Between(c, c2, t) == (c <= t => (c <= c2 /\ c2 <= t)) /\ (t <= c => (t <= c2 /\ c2 <= c))

\* the blend factors the ticks can form with the frame times explored
BlendFactors ==
  {Blend(resp, ClampDt(ms)) :
     resp \in {Grid_DRAG_RESP, Grid_INERTIA_RESP, Cam_DRAG_RESP, Cam_INERTIA_RESP,
               SCROLL_POS_RESP},
     ms \in DtMs}

\* C11: in every tick current moves toward the target the tick found, on each
\* axis, and never passes it (the blend factor is in [0,1)); a tick with
\* dt > 0 that finds current epsilon or more from the target shrinks the
\* distance to at most 7/10, so epsilon is reached in a bounded number of ticks.
C11_NoOvershoot ==
  /\ [](\A a \in BlendFactors : 0 <= a /\ a < ONE)
  /\ [][/\ TickStep =>
            /\ Between(CurX, CurX', TargetX)
            /\ Between(CurY, CurY', TargetY)
        /\ PickerTickStep => Between(scrollCurrent, scrollCurrent', scrollTarget)
        /\ \A ms \in DtMs \ {0} :
             /\ (rafQueue > 0 /\ LastTick # 0 /\ event' = "frame"
                   /\ Abs(TargetX - CurX) >= StopDist /\ Frame(ms))
                  => 10 * Abs(TargetX - CurX') <= 7 * Abs(TargetX - CurX)
             /\ (pickerQueue > 0 /\ pickerLastT # 0 /\ event' = "frame"
                   /\ Abs(scrollTarget - scrollCurrent) >= Picker_STOP_DIST /\ Frame(ms))
                  => 10 * Abs(scrollTarget - scrollCurrent') <= 7 * Abs(scrollTarget - scrollCurrent)
       ]_vars

\* C11 witness: during a drag, ticks have carried current part of the way from
\* the drag origin to the target.
C11_Witness ==
  /\ isDragging
  /\ LastTick # 0
  /\ CurX # OriginX
  /\ CurX # TargetX
  /\ Between(OriginX, CurX, TargetX)

C13_StopSpeedSnap ==
  [][(TickStep /\ ~isDragging) =>
       /\ \/ VelocityX' = 0 /\ VelocityY' = 0
          \/ ~HypotLt(VelocityX', VelocityY', StopSpeed * U)
       /\ VelocityX' * VelocityX' + VelocityY' * VelocityY'
            <= VelocityX * VelocityX + VelocityY * VelocityY
    ]_vars

\* C13 witness: a glide in progress: the drag was released, a tick has advanced
\* the target past the point the drag left it at, and the velocity is not 0.
C13_Witness ==
  /\ ~isDragging
  /\ ~isPointerDown
  /\ VelocityX # 0
  /\ LastTick # 0
  /\ TargetX # OriginX + (LastPointerX - startX) * U

\* C14: a camera tick executed while isDragging is true leaves velocity and
\* target unchanged (and the drag session with its origin): it changes only
\* current, the tile cache derived from it and the tick's own bookkeeping.
C14_NoInertiaWhileDragging ==
  [][(TickStep /\ isDragging) =>
       UNCHANGED <<TargetX, TargetY, VelocityX, VelocityY, OriginX, OriginY,
                   LastPointerX, dragVars>>
    ]_vars

\* C14 witness: a tick has moved current during a drag whose velocity is not 0.
C14_Witness ==
  /\ isDragging
  /\ isPointerDown
  /\ VelocityX # 0
  /\ LastTick # 0
  /\ CurX # OriginX
  /\ TargetX = OriginX + (LastPointerX - startX) * U

\* C16: whenever the page shows the grid screen, no frame callback of the
\* scroll view is pending and no frame id is held, whatever start, init and
\* initialize timers fire meanwhile; and a setScreen("grid") received on the
\* grid screen (a stop of the stopped driver) changes nothing of that.
C16_ViewSwitchCancels ==
  /\ []((variant = "inline" /\ screen = "grid") =>
          (animateQueue = 0 /\ loopQueue = 0 /\ scrollRaf = "null"))
  /\ [][(setScreen("grid") /\ screen = "grid") =>
          UNCHANGED <<scrollRaf, animateQueue, loopQueue, scrollInited, systems>>]_vars

\* C16 witness: the scroll view ran (it scrolled), the page went back to the
\* grid, and a start timer set before the switch fired after it.
C16_Witness ==
  /\ variant = "inline"
  /\ screen = "grid"
  /\ scrollRunning
  /\ wheels > 0
  /\ animateQueue = 0

\* a step in which the browser runs a frame
FrameStep == event' = "frame" /\ \E ms \in DtMs : Frame(ms)

\* what the inertia of a camera tick adds to a target coordinate: the velocity
\* after friction times dt, ms being the time since the previous tick
InertiaAdvance(v, ms) ==
  LET dt == IF LastTick = 0 THEN 0 ELSE ClampDt(ms)
  IN  MulFrac(MulFrac(v, ExpNeg(FrictionPerSec * dt), ONE), dt, 1000)

\* C15 (as claimed): no tick of any driver (camera, picker, WebGL scroll)
\* changes a target.
C15_TargetByInputsOnly ==
  [][FrameStep => UNCHANGED <<TargetX, TargetY, scrollTarget, targetScrollY>>]_vars

\* C15 (amended): no tick of the picker or of the WebGL scroll changes its
\* target, no timer changes a target, and a camera tick changes the camera
\* target only while not dragging, by its inertia: target += velocity * dt
\* with the velocity after friction.
C15_TargetByInputsAndInertia ==
  [][/\ FrameStep => UNCHANGED <<scrollTarget, targetScrollY>>
     /\ TimerFire => UNCHANGED <<TargetX, TargetY, scrollTarget, targetScrollY>>
     /\ (FrameStep /\ (isDragging \/ rafQueue = 0)) => UNCHANGED <<TargetX, TargetY>>
     /\ \A ms \in DtMs :
          (rafQueue > 0 /\ ~isDragging /\ event' = "frame" /\ Frame(ms)) =>
            /\ TargetX' = TargetX + InertiaAdvance(VelocityX, ms)
            /\ TargetY' = TargetY + InertiaAdvance(VelocityY, ms)
    ]_vars

\* C15 witness: a glide has ended: the driver is stopped and the target rests
\* beyond the point the released drag had put it at.
C15_Witness ==
  /\ Stopped
  /\ ~isPointerDown
  /\ startX # 0
  /\ TargetX # OriginX + (LastPointerX - startX) * U

\* C17 (as claimed): leaving the scroll view of the picker page through
\* setScreen("grid") cancels the picker's pending tick and resets its
\* ephemeral state (scroll target and current, wheel speed, stretch) to the
\* initial values.
C17_PickerResetOnLeave ==
  [][(screen = "scroll" /\ Picker_setScreen("grid")) =>
       /\ pickerRafId' = "null"
       /\ pickerQueue' = 0
       /\ scrollTarget' = 0
       /\ scrollCurrent' = 0
       /\ wheelSpeed' = 0
       /\ scrollStretch' = 0
    ]_vars

\* C18 (as claimed): once input has ceased with the scroll view initialized,
\* the frame loop of the view reaches Stopped: no frame callback is pending
\* and none is requested any more, without a view switch.
C18_ScrollSelfTerminates ==
  (variant = "inline" /\ inputs = MaxInputs /\ scrollReady)
    ~> (animateQueue = 0 /\ loopQueue = 0)

\* C19: the label index of every rendered slot lies in 0 .. itemCount - 1 and
\* is the same one period of itemCount slots further, whatever the (possibly
\* negative) base index the tick has published; mod(n, m) has the same two
\* properties for every m >= 1.
C19_Wraparound ==
  /\ variant = "lib" =>
        \A slot \in slots :
           /\ Picker_labelIndex(scrollBaseIndex, slot) \in 0..(itemsLength - 1)
           /\ Picker_labelIndex(scrollBaseIndex, slot + itemsLength)
                = Picker_labelIndex(scrollBaseIndex, slot)
           /\ Picker_labelIndex(scrollBaseIndex, slot - itemsLength)
                = Picker_labelIndex(scrollBaseIndex, slot)
  /\ variant = "inline" =>
        \A m \in 1..itemsLength :
           \A n \in (-itemsLength)..itemsLength :
              /\ mod(n, m) \in 0..(m - 1)
              /\ mod(n + m, m) = mod(n, m)

\* the picker is shown with a negative base index, so slots wrap below zero
C19_Witness ==
  /\ variant = "lib"
  /\ screen = "scroll"
  /\ scrollBaseIndex < 0
  /\ Picker_labelIndex(scrollBaseIndex, -radius) = 1

C21_ImageAddressing ==
  /\ variant = "lib" =>
        \A i \in DOMAIN visibleTiles :
           LET col == visibleTiles[i].x \div cellSize
               row == visibleTiles[i].y \div cellSize
           IN  /\ visibleTiles[i].image \in 0..(TOTAL_IMAGES - 1)
               /\ visibleTiles[i].image
                    = ((row % TOTAL_IMAGES) + (col % TOTAL_IMAGES)) % TOTAL_IMAGES
  /\ Grid_finalIndex(0, 0) = 0
  /\ Grid_finalIndex(-1, 0) = 19

\* a tick has regenerated the list around another centre cell, and the list
\* holds the tile of cell col = -1, row = 0 with image 19
C21_Witness ==
  /\ variant = "lib"
  /\ event = "frame"
  /\ <<lastCenterCol, lastCenterRow>> # <<0, 0>>
  /\ \E i \in DOMAIN visibleTiles :
        /\ visibleTiles[i].x = -cellSize
        /\ visibleTiles[i].y = 0
        /\ visibleTiles[i].image = 19

\* column and row of the cell a tile stands on
TileCol(t) == t.x \div cellSize
TileRow(t) == t.y \div cellSize

\* C22: the visible list is determined by the recorded centre cell alone:
\* computing it again for that cell gives the same list, and the list is the
\* cells of [col - h, col + h] x [row - h, row + h] with h = ceil(gridSize / 2),
\* each cell once, in row-major order.
C22_VisibleTilesPure ==
  variant = "lib" =>
    LET h == (gridSize + 1) \div 2
        cols == (lastCenterCol - h)..(lastCenterCol + h)
        rows == (lastCenterRow - h)..(lastCenterRow + h)
    IN  /\ visibleTiles
             = Grid_computeVisibleTiles([col |-> lastCenterCol, row |-> lastCenterRow])
        /\ Len(visibleTiles) = Cardinality(cols) * Cardinality(rows)
        /\ \A i \in DOMAIN visibleTiles :
              /\ visibleTiles[i].x = TileCol(visibleTiles[i]) * cellSize
              /\ visibleTiles[i].y = TileRow(visibleTiles[i]) * cellSize
              /\ TileCol(visibleTiles[i]) \in cols
              /\ TileRow(visibleTiles[i]) \in rows
        /\ \A i \in 1..(Len(visibleTiles) - 1) :
              \/ TileRow(visibleTiles[i]) < TileRow(visibleTiles[i + 1])
              \/ /\ TileRow(visibleTiles[i]) = TileRow(visibleTiles[i + 1])
                 /\ TileCol(visibleTiles[i]) < TileCol(visibleTiles[i + 1])

\* a tick has regenerated the list around a centre cell other than the one
\* of the mount; the list starts at the top-left cell of the new window
C22_Witness ==
  /\ variant = "lib"
  /\ event = "frame"
  /\ <<lastCenterCol, lastCenterRow>> # <<0, 0>>
  /\ TileCol(visibleTiles[1]) = lastCenterCol - 4
  /\ TileRow(visibleTiles[1]) = lastCenterRow - 4
  /\ Len(visibleTiles) = 81

\* a tick of the grid runs
GridTickStep ==
  /\ variant = "lib"
  /\ rafQueue > 0
  /\ event' = "frame"
  /\ \E ms \in DtMs : Frame(ms)

\* C23: a grid tick puts a new list in the store only when the centre cell of
\* the updated offset differs from the recorded one, and then records that
\* cell; when the centre cell is the recorded one the list and the record
\* stay as they are.
C23_GatedRegeneration ==
  [][GridTickStep =>
       LET c == Grid_getCenterCell(currentOffsetX', currentOffsetY')
       IN  IF c.col # lastCenterCol \/ c.row # lastCenterRow
           THEN /\ visibleTilesId' # visibleTilesId
                /\ lastCenterCol' = c.col
                /\ lastCenterRow' = c.row
           ELSE UNCHANGED <<visibleTiles, visibleTilesId,
                            lastCenterCol, lastCenterRow>>
    ]_vars

\* a tick has moved the offset inside the recorded centre cell and has left
\* the list alone, after an earlier tick had regenerated it
C23_Witness ==
  /\ variant = "lib"
  /\ event = "frame"
  /\ visibleTilesId = 1
  /\ <<lastCenterCol, lastCenterRow>> # <<0, 0>>
  /\ rafId = "null"

\* C24: after every tick the published address is the address of the stored
\* position: for the picker base * itemHeight + fraction = current, for the
\* grid the recorded centre cell is the centre cell of the stored offset and
\* the list is the list of that cell.
C24_NoStaleAddress ==
  [][(variant = "lib" /\ event' = "frame" /\ \E ms \in DtMs : Frame(ms)) =>
       /\ pickerQueue > 0 =>
             scrollBaseIndex' * itemHeight * U + scrollFrac' = scrollCurrent'
       /\ rafQueue > 0 =>
             LET c == Grid_getCenterCell(currentOffsetX', currentOffsetY')
             IN  /\ lastCenterCol' = c.col
                 /\ lastCenterRow' = c.row
                 /\ visibleTiles' = Grid_computeVisibleTiles(c)
    ]_vars

\* one frame has run both ticks: the grid's offset has entered another cell
\* and the picker's position is negative
C24_Witness ==
  /\ variant = "lib"
  /\ event = "frame"
  /\ <<lastCenterCol, lastCenterRow>> # <<0, 0>>
  /\ scrollCurrent < 0
  /\ scrollBaseIndex = -1

\* the scale and the opacity of every slot are inside their bounds
StretchBounded(frac, stretch) ==
  \A slot \in slots :
     LET scaleY == Picker_labelScaleY(slot, frac, stretch)
         opacity == Picker_labelOpacity(slot, frac)
     IN  /\ scaleY >= (MIN_SCALE_Y * ONE) \div 100
         /\ scaleY <= ONE + (STRETCH_MAX_Y * ONE) \div 100
         /\ opacity >= (55 * ONE) \div 100
         /\ opacity <= ONE

\* fractions and stretches at the ends and in the middle of their ranges
FracSamples == {0, 1, (itemHeight * U) \div 2, itemHeight * U - 1}
StretchSamples == {0, 1, ONE \div 2, ONE - 1, ONE}

StretchBoundedOnSamples ==
  \A frac \in FracSamples : \A stretch \in StretchSamples :
     StretchBounded(frac, stretch)

\* C25: the stretch the ticks publish stays in [0, 1] whatever the wheel
\* speed, and for the published fraction and stretch, and for fractions and
\* stretches at the ends of their ranges, labelScaleY of every slot lies in
\* [0.55, 2.2] and labelOpacity in [0.55, 1].
C25_StretchBounds ==
  /\ variant = "lib" =>
        /\ scrollStretch \in 0..ONE
        /\ StretchBounded(scrollFrac, scrollStretch)
  /\ StretchBoundedOnSamples

\* a tick has published a stretch after a wheel event: the centre slot is
\* stretched above 1 and an outer slot is shrunk below 1
C25_Witness ==
  /\ variant = "lib"
  /\ event = "frame"
  /\ wheelSpeed > 0
  /\ scrollStretch > 0
  /\ Picker_labelScaleY(0, scrollFrac, scrollStretch) > ONE
  /\ Picker_labelScaleY(radius, scrollFrac, scrollStretch) < ONE
  /\ Picker_labelOpacity(0, scrollFrac) > Picker_labelOpacity(1, scrollFrac)

\* C26: a wheel event adds deltaY times the sensitivity to the scroll target
\* (sensitivity 1 in the picker, 0.5 in the WebGL scroll) and nothing else
\* changes a target of a live tracker: no tick, no pointer event, no resize;
\* so the target is the sum of the scaled deltas delivered so far.
C26_WheelAccumulation ==
  [][/\ \A dy \in WheelDeltas :
          /\ (event' = "wheel" /\ variant = "lib"
                /\ \E gap \in WheelGapMs : Picker_onWheel(dy, gap))
               => scrollTarget' = scrollTarget + dy * U
          /\ (event' = "wheel" /\ variant = "inline" /\ Scroll_onWheel(dy))
               => 2 * (targetScrollY' - targetScrollY) = dy * U
     /\ event' # "wheel" => scrollTarget' = scrollTarget
     /\ event' \in {"frame", "down", "move", "up", "resize"}
          => targetScrollY' = targetScrollY
    ]_vars

\* two wheel events and frames between and after them in the WebGL scroll
C26_Witness ==
  /\ variant = "inline"
  /\ event = "frame"
  /\ wheels = 2
  /\ 2 * targetScrollY = (16 - 3) * U
  /\ scrollY # 0
  /\ scrollY # targetScrollY

\* C27: once the wheel events have ceased, ticks with dt > 0 bring the picker
\* driver to Stopped; it leaves Running only in a tick that leaves
\* wheelSpeed = 0, stretch < 0.01 and |target - current| < 0.6, and it is
\* never stopped while wheelSpeed # 0.
C27_PickerTermination ==
  /\ (variant = "lib" /\ inputs = MaxInputs) ~> (pickerRafId = "null")
  /\ [][(pickerRafId # "null" /\ pickerRafId' = "null") =>
           /\ event' = "frame"
           /\ wheelSpeed' = 0
           /\ scrollStretch' < Picker_STOP_STRETCH
           /\ Abs(scrollTarget' - scrollCurrent') < Picker_STOP_DIST
       ]_vars
  /\ [](variant = "lib" /\ wheelSpeed # 0 => pickerRafId # "null")

\* the picker has stopped after two wheel events, at rest near a target
\* away from 0
C27_Witness ==
  /\ variant = "lib"
  /\ pickerRafId = "null"
  /\ wheels = 2
  /\ inputs = MaxInputs
  /\ scrollTarget # 0
  /\ scrollCurrent # 0
  /\ wheelSpeed = 0

\* C28 (as claimed): 60 frames at 1/60 s after a single wheel event of
\* deltaY = 500 from rest, wheelSpeed is 0, the stretch has relaxed below the
\* stop epsilon 0.01, and the target has advanced by 500 in the direction of
\* the event.
C28_WheelImpulse ==
  (variant = "lib" /\ wheels = 1 /\ ticks = 60) =>
     /\ wheelSpeed = 0
     /\ scrollStretch < Picker_STOP_STRETCH
     /\ scrollTarget = scrollDir * 500 * U

\* wheel speeds from rest to the speed of a single large wheel event
SpeedSamples == {0, WHEEL_MAX_VEL * U, 275000 * U}

\* C29: the position a picker tick publishes does not depend on the wheel
\* speed, the stretch or the direction it starts from: with any other values
\* of the three, the same target, current and dt give the same scrollCurrent,
\* scrollBaseIndex and scrollFrac.
C29_SpeedDoesNotMovePosition ==
  [][(variant = "lib" /\ pickerQueue > 0 /\ event' = "frame") =>
       \A ms \in DtMs :
          Frame(ms) =>
            \A ws \in SpeedSamples : \A stretch \in {0, ONE} :
            \A dir \in {-1, 1} :
               LET dt == IF pickerLastT = 0 THEN 0 ELSE ClampDt(ms)
                   current == Picker_position(scrollTarget, scrollCurrent,
                                              ws, stretch, dir, dt)
                   base == Picker_base(current)
               IN  /\ scrollCurrent' = current
                   /\ scrollBaseIndex' = base
                   /\ scrollFrac' = current - base * itemHeight * U
    ]_vars

\* a tick has moved the position toward the target while the wheel speed and
\* the stretch were not 0 and the direction was upward
C29_Witness ==
  /\ variant = "lib"
  /\ event = "frame"
  /\ wheelSpeed > 0
  /\ scrollStretch > 0
  /\ scrollDir = -1
  /\ scrollCurrent < 0
  /\ scrollCurrent # scrollTarget

\* a frame callback of the scroll view runs its update loop
ScrollDrawStep ==
  /\ variant = "inline"
  /\ animateQueue > 0 \/ loopQueue > 0
  /\ scrollRunning /\ systems /\ scrollAttached
  /\ event' = "frame"
  /\ \E ms \in DtMs : Frame(ms)

C31_DegenerateGuarded ==
  /\ [](/\ \A v \in {currentOffsetX, currentOffsetY, targetOffsetX,
                       targetOffsetY, velocityX, velocityY} : v # NaN
        /\ \A v \in {camX, camY, camTargetX, camTargetY, velX, velY} : v # NaN
        /\ \A v \in {scrollTarget, scrollCurrent, scrollFrac, scrollStretch,
                       wheelSpeed} : v # NaN
        /\ \A v \in {scrollY, targetScrollY, lastScrollY, velocity} : v # NaN
        /\ Picker_sigma >= 35)
  /\ [][ScrollDrawStep /\ Scroll_draws =>
         /\ Scroll_itemHeight > 0
         /\ \A index \in Items :
               calculateItemPosition(index, scrollY', Scroll_itemHeight,
                                     Cardinality(Items), innerHeight) # NaN
      ]_vars

\* the first wheel event of the picker, which has no earlier event to take
\* its time delta from, has set a wheel speed
C31_Witness ==
  /\ variant = "lib"
  /\ event = "wheel"
  /\ wheels = 1
  /\ wheelSpeed > 0

\* C32: readViewportSize always sets gridYOffset to computeGridYOffset(vw).
\* While the pointer is down or a drag is armed it leaves camY and camTargetY
\* as they are; otherwise it moves both by the change of gridYOffset, so
\* camTargetY - camY is the same before and after, and a driver that holds no
\* frame holds none afterwards.
C32_ResizeShift ==
  [][(variant = "inline" /\ event' = "resize") =>
       /\ gridYOffset' = computeGridYOffset(vw')
       /\ (isPointerDown \/ isDragging) => UNCHANGED <<camY, camTargetY>>
       /\ ~(isPointerDown \/ isDragging) =>
             /\ camY' = camY + (gridYOffset' - gridYOffset) * U
             /\ camTargetY' = camTargetY + (gridYOffset' - gridYOffset) * U
       /\ camTargetY' - camY' = camTargetY - camY
       /\ rafCam = "null" => (rafCam' = "null" /\ rafQueue' = rafQueue)
    ]_vars

\* the window was resized to another preset with the pointer up and the
\* driver stopped: the camera sits at the new preset's offset
C32_Witness ==
  /\ variant = "inline"
  /\ event = "resize"
  /\ ~isPointerDown /\ ~isDragging
  /\ gridYOffset # computeGridYOffset(MountViewport[1])
  /\ rafCam = "null"
  /\ camY = camTargetY
  /\ camY # 0

\* C33: on the page of scrollConfig.ts, switching away from the grid screen
\* never leaves a drag stuck: setScreen(next) with next other than 'grid'
\* leaves isDragging false and the velocity (0, 0), and while isDragging is
\* false, as it is from then until the next pointer-down, a pointer-move or
\* pointer-up on the window changes no grid field and requests no frame.
C33_NoStuckDrag ==
  /\ [][(variant = "config" /\ event' = "screen" /\ screen' # "grid") =>
          (~isDragging' /\ velocityX' = 0 /\ velocityY' = 0)]_vars
  /\ [][(variant = "config" /\ ~isDragging /\ event' \in {"move", "up"}) =>
          UNCHANGED <<dragVars, gridVars, rafQueue>>]_vars
  /\ [][(variant = "config" /\ ~isDragging /\ isDragging') => event' = "down"]_vars

\* the view was switched during a drag with a measured velocity, and a
\* pointer-up arrived on the scroll screen afterwards
C33_Witness ==
  /\ variant = "config"
  /\ screen = "scroll"
  /\ event = "up"
  /\ ~isDragging
  /\ targetOffsetX # offsetX
  /\ velocityX = 0
  /\ lastClientX # startX

\* C34 (as claimed): one mesh per list item. In every reachable state of the
\* WebGL scroll view the mesh manager holds at most items.length meshes and
\* mesh k belongs to item k, whatever the order of the deferred initialize
\* timer, window resizes and screen switches.
C34_OneMeshPerItem ==
  variant = "inline" =>
    /\ Len(meshes) <= Cardinality(Items)
    /\ \A k \in DOMAIN meshes : meshes[k].text = k - 1

\* C35: a single WebGL scroll loop. At most one frame callback of the scroll
\* view, animate or the resume loop, is pending at any time, whatever the
\* order of setScreen calls, the deferred timers and frames; and
\* initWebGLScroll takes effect only when the view is not initialized, which
\* only a teardown (setScreen leaving the scroll screen) makes it again.
C35_SingleScrollLoop ==
  /\ [](variant = "inline" => animateQueue + loopQueue <= 1)
  /\ [][(variant = "inline" /\ animateQueue' > animateQueue) =>
          (~scrollInited /\ scrollInited' /\ event' = "timer")]_vars
  /\ [][(variant = "inline" /\ scrollInited /\ ~scrollInited') =>
          (event' = "screen" /\ screen = "scroll" /\ screen' # "scroll")]_vars

\* after three or more input events a timer has run on the initialized,
\* running scroll view: exactly one callback is pending
C35_Witness ==
  /\ variant = "inline"
  /\ event = "timer"
  /\ screen = "scroll"
  /\ scrollInited
  /\ scrollRunning
  /\ animateQueue + loopQueue = 1
  /\ inputs >= 3

\* C36: in the threshold-gated controllers (createInfiniteGrid and the camera
\* of the page) isDragging implies isPointerDown in every reachable state,
\* for any sequence of pointer-down, move, up, cancel, resize and tick
\* events; a pointer-down received while a drag is armed leaves the pointer
\* down and the drag not armed.
C36_DraggingImpliesDown ==
  /\ [](variant \in {"lib", "inline"} => (isDragging => isPointerDown))
  /\ [][(variant \in {"lib", "inline"} /\ isDragging /\ event' = "down"
           /\ screen = "grid") =>
          (isPointerDown' /\ ~isDragging')]_vars

\* a pointer-down arrives after the camera was dragged away from its
\* mounting position: the pointer is down and no drag is armed
C36_Witness ==
  /\ variant = "inline"
  /\ event = "down"
  /\ isPointerDown
  /\ ~isDragging
  /\ camX # 0
  /\ camTargetX = camX

\* the positions calculateItemPosition gives the items at scroll position y0
\* in a window innerH px high: each is congruent to index * itemHeight - y0
\* modulo itemHeight * count, and two items are at least itemHeight apart
ItemsTiled(y0, innerH) ==
  LET height == Scroll_rectHeight
      count == Cardinality(Items)
      pos == [index \in Items |->
                calculateItemPosition(index, y0, height, count, innerH)]
  IN  /\ \A index \in Items :
            (pos[index] - (index * height - y0)) % (height * count) = 0
      /\ \A i \in Items : \A j \in Items \ {i} :
            Abs(pos[i] - pos[j]) >= height

\* scroll positions up to three periods either way, on and beside the
\* quarters of the item height
ScrollSamples ==
  {k * (Scroll_rectHeight \div 4) + d : k \in -36..36, d \in {-1, 0, 1}}

ItemsTiledOnSamples ==
  \A y0 \in ScrollSamples : \A size \in Viewports : ItemsTiled(y0, size[2])

\* C37: calculateItemPosition(i, scrollY) is congruent to
\* i * itemHeight - scrollY modulo totalHeight for every item and every
\* scroll position, negative ones too, and distinct items lie at least
\* itemHeight apart: at the scroll position of every reachable state of the
\* initialized view, and at sampled positions up to three periods either way.
C37_WrapCongruent ==
  /\ (variant = "inline" /\ scrollReady) => ItemsTiled(scrollY, innerHeight)
  /\ ItemsTiledOnSamples

\* a frame has positioned the items at a negative scroll position
C37_Witness ==
  /\ variant = "inline"
  /\ event = "frame"
  /\ Scroll_draws
  /\ scrollY < 0
  /\ \E k \in DOMAIN meshes : meshes[k].at # -1

\* C38 (as claimed): hover consistency in the visited list. In every
\* reachable state mesh i has its hover flag set if and only if i is
\* hoveredVisitedIndex, and hoveredVisitedIndex is non-null exactly when
\* hoveredVisited is non-null, whatever the order of mouseenter, mouseleave,
\* resize and screen switches.
C38_HoverConsistent ==
  variant = "inline" =>
    /\ \A i \in Items :
          Mesh_slot(i) \in DOMAIN meshes =>
            (meshes[Mesh_slot(i)].hover <=> i = hoveredVisitedIndex)
    /\ (hoveredVisitedIndex # null) <=> (hoveredVisited # null)

\* C39: picker state ranges. In every reachable state, for any sequence of
\* wheel events and ticks with dt >= 0, scrollStretch is in [0, 1],
\* wheelSpeed is at least 0 and scrollDir is +1 or -1; a wheel event with
\* deltaY other than 0 sets scrollDir to the sign of deltaY in the same step,
\* one with deltaY 0 leaves it as it was.
C39_PickerRanges ==
  /\ [](variant = "lib" =>
          /\ scrollStretch >= 0 /\ scrollStretch <= ONE
          /\ wheelSpeed >= 0
          /\ scrollDir \in {1, -1})
  /\ [][(variant = "lib" /\ event' = "wheel") =>
          LET deltaY == scrollTarget' - scrollTarget
          IN  IF deltaY # 0 THEN scrollDir' = Sgn(deltaY)
              ELSE scrollDir' = scrollDir]_vars

\* a wheel event upwards was followed by one with deltaY 0: the direction is
\* still -1
C39_Witness ==
  /\ variant = "lib"
  /\ event = "wheel"
  /\ wheels = 2
  /\ scrollTarget = -3 * U
  /\ scrollDir = -1
  /\ wheelSpeed > 1650

====
